---- MODULE Spec2Model ----
(***************************************************************************)
(* Storage and download orchestration layer of the comic reader            *)
(* (src/lib/dexieDB.ts) together with the reader page that drives it       *)
(* (src/unnamed/part_005).                                                 *)
(*                                                                         *)
(* Granularity.  The program is single-threaded and cooperative: a task    *)
(* runs until it awaits.  Every action below is one such slice: it starts  *)
(* where an awaited operation has resolved, runs the synchronous code that *)
(* follows and ends by issuing the next awaited operation.  IndexedDB      *)
(* serialises the transactions of one store in the order in which they     *)
(* are created, so the effect of a storage operation (and the value a read *)
(* returns) is fixed when it is issued; the action that issues it applies  *)
(* it.  An await whose continuation reads and writes nothing but the       *)
(* locals of its own call (the put of line 260 before the first fetch, the *)
(* put of line 284 before response.blob(), the put of line 312 before the  *)
(* rethrow, the last delete of enforceComicLimit before the return)        *)
(* commutes with every step of every other task and is folded into the     *)
(* slice before it.  Storage operations themselves are assumed to succeed. *)
(***************************************************************************)
EXTENDS Integers, Sequences, FiniteSets, TLC

\* ---- bounds of the model ------------------------------------------------
NumCalls == 2      \* download calls (foreground loads and preloads) per run
NumFresh == 2      \* ids beyond the cache capacity that may be requested
NumTasks == 2      \* tasks reading or syncing the content snapshot per run
NumOps == 3        \* progress calls (markComicStatus, setTotalPages) per run
NumPages == 3      \* images in the archive of a comic
MaxFiles == 43     \* files of a folder listing given to batchFiles
MaxBatchSize == 40 \* batch sizes given to batchFiles
NumFolders == 3    \* folders of the main directory listing
LongListing == 45  \* files of the longest folder listing
MaxUrls == 2       \* urls of a batch download
NumFsOps == 2      \* finished calls of FileStorage operations
MaxEntries == 2    \* files in an archive
NumIdCalls == 3    \* calls of getNextId that overlap
MaxFolders == 3    \* folders created before the calls
NumStorageOps == 1 \* calls of FileStorage operations made one after the other
NumOpens == 2      \* comics opened in a reader, one after the other
MaxArchive == 3    \* entries of an archive given to a reader
NumSetCalls == 2   \* calls of setLastReadComic / setLastFolder that may overlap
MaxClock == 2      \* values of Date.now() after the first
MaxListing == 3    \* items of a listing given to a sort
MaxChildren == 2   \* children of a folder of the tree given to the file manager

\* ---- constants of the program -------------------------------------------
MaxComics == 10         \* enforceComicLimit keeps at most 10 completed records
Attempts == 3           \* retryFetch(url, options, attempts = 3)
TimeoutMs == 90000      \* setTimeout(() => controller.abort(), 90000)
BackoffBaseMs == 1000   \* setTimeout(resolve, 1000 * (2 ** i))
DefaultBatchSize == 40  \* batchFiles(files, 40)

Calls == 1..NumCalls
\* call 1 is the reader page in the foreground (loadComic); the other calls
\* are preloads started by reader pages (preloadNextComic)
Foreground(c) == c = 1
Ids == 1..(MaxComics + NumFresh)
\* ids a call may ask for: the oldest id and the ids beyond the capacity
Wanted == {1} \cup ((MaxComics + 1)..(MaxComics + NumFresh))
\* number of completed records left in the (persistent) download table by
\* earlier, sequential downloads of the ids 1..k: none, or a full cache
Prefills == {0, MaxComics}
\* the Content-Length header the server sends for a url
ContentLength(url) == 7

VARIABLES
  comicDownloads,  \* the download table: id -> record (Absent when no row)
  now,             \* last value returned by Date.now()
  pc,              \* per call: the await the call is suspended at
  cid,             \* per call: the id asked for
  meta,            \* per call: the local variable meta of downloadComic
  attempts,        \* per call: number of fetch() calls made by retryFetch
  timeoutId,       \* per call: the 90 s timer is armed
  aborted,         \* per call: controller.signal.aborted
  elapsed,         \* per call: 90 s have passed since the timer was set
  delay,           \* per call: the backoff delay being waited for (ms)
  toDelete,        \* per call: ids enforceComicLimit has still to delete
  result,          \* per call: the record downloadComic resolved with
  comicBlob,       \* per call: the local variable comicBlob of loadComic
  lcMeta           \* per call: the record getDownloadedComic read last (its meta)

dlvars == <<comicDownloads, now, pc, cid, meta, attempts, timeoutId,
            aborted, elapsed, delay, toDelete, result, comicBlob, lcMeta>>

VARIABLES
  comics,          \* the content snapshot table: its row "root" (NoRoot when empty)
  readComics,      \* the progress table: file id -> record (NoStatus when no row)
  tpc,             \* per task: the await the task is suspended at
  top,             \* per task: the operation it runs
  tdata,           \* per task: the local variable data of updateFromRemoteDB
  troot,           \* per task: the local variable root of getComicsData
  tmap,            \* per task: the local statusMap (the rows getReadComics returned)
  tres,            \* per task: the value the operation resolved with
  persisted,       \* history: a content snapshot has been persisted at some time
  tsaw             \* history: per task, the value of persisted when it started

syvars == <<comics, readComics, tpc, top, tdata, troot, tmap, tres, persisted, tsaw>>

VARIABLES
  ppc,             \* per progress call: the await the call is suspended at
  pop,             \* per progress call: the operation it runs
  parg,            \* per progress call: its arguments (id, status, lastPage, totalPages)
  pcomic,          \* per progress call: the local variable comic of setTotalPages
  proot,           \* per progress call: the local variable root
  ppre             \* history: per progress call, both tables as they were when it started (Pre)

pgvars == <<ppc, pop, parg, pcomic, proot, ppre>>

VARIABLES
  bfFiles,         \* batchFiles: the argument files
  bfSize,          \* batchFiles: the argument batchSize
  bfOut,           \* batchFiles: the batches returned
  bfDone           \* batchFiles: the call has returned

bfvars == <<bfFiles, bfSize, bfOut, bfDone>>

VARIABLES
  lfpc,            \* listFiles: position of the call
  lfFolders,       \* listFiles: the folders extracted from the main listing
  lfIdx,           \* listFiles: index of the folder being processed
  lfResult,        \* listFiles: result, folder name -> batches
  lfSeen           \* history: what the fetch of each folder's listing gave

lfvars == <<lfpc, lfFolders, lfIdx, lfResult, lfSeen>>

VARIABLES
  fsDb,            \* FileStorage: db is set (init has succeeded)
  fsOpen,          \* FileStorage: state of the init call
  fsFiles,         \* object store 'files'
  fsFolders,       \* object store 'folders'
  fsMeta,          \* object store 'metadata'
  fsLog,           \* history: the outcome of every finished call
  fsXfers,         \* network transfers in flight
  sfpc,            \* storeFile: position of the call
  sfFile,          \* storeFile: the file and its folder
  sfCaller,        \* storeFile: called by the component or by a download
  sfDbAtCall,      \* history: db was set when storeFile was called
  sfId,            \* storeFile: the id getNextId gave
  dfpc,            \* downloadFileFromUrl: position of the call
  dfUrl,           \* downloadFileFromUrl: url
  dfCaller,        \* downloadFileFromUrl: called alone or by the batch loop
  dfMsg,           \* downloadFileFromUrl: message of the error caught
  dfHead,          \* downloadFileFromUrl: headers of the HEAD response
  sqpc,            \* downloadFilesSequentially: position of the call
  sqUrls,          \* downloadFilesSequentially: urls
  sqI,             \* downloadFilesSequentially: loop index i + 1
  sqOk,            \* downloadFilesSequentially: result.successfulFiles
  sqFailed,        \* downloadFilesSequentially: result.failedUrls
  sqTried,         \* history: the urls handed to downloadFileFromUrl
  sqHist,          \* history: outcome of each url
  sqDbAtCall       \* history: db was set when the batch was called

fsvars == <<fsDb, fsOpen, fsFiles, fsFolders, fsMeta, fsLog, fsXfers,
            sfpc, sfFile, sfCaller, sfDbAtCall, sfId,
            dfpc, dfUrl, dfCaller, dfMsg, dfHead,
            sqpc, sqUrls, sqI, sqOk, sqFailed, sqTried, sqHist, sqDbAtCall>>

VARIABLES
  lgDb,            \* earlier FileStorage: db is set
  lgOpen,          \* earlier FileStorage: state of the init call
  lgFiles,         \* earlier FileStorage: object store 'files'
  lgLast,          \* earlier FileStorage: metadata row lastFileId
  lgpc,            \* earlier FileStorage: position of the storeFile call
  lgDbAtCall       \* history: db was set when storeFile was called

lgvars == <<lgDb, lgOpen, lgFiles, lgLast, lgpc, lgDbAtCall>>

\* the reader components: the implementation, whether the component is
\* mounted, the number of comics opened, the state images (archiveImages), the
\* images held by the pending cleanup, the live object URLs, the states
\* loading and error, and the extraction started for each comic opened
VARIABLES
  rdKind, rdMounted, rdOpen, rdImages, rdCleanup, rdLive, rdLoading, rdError, rdTask
rdvars == <<rdKind, rdMounted, rdOpen, rdImages, rdCleanup, rdLive, rdLoading, rdError, rdTask>>

\* the tables lastReadComic and lastFolder (rows {id, timestamp}, key id), the
\* clock of Date.now(), the calls of setLastReadComic and setLastFolder, and
\* for each table the id of the call that completed last
VARIABLES
  lastRows, lpNow, lpCall, lpLast
lpvars == <<lastRows, lpNow, lpCall, lpLast>>

\* history: per task, the value response.json() gave to updateFromRemoteDB
VARIABLES
  traw
mfvars == <<traw>>

\* a listing given to a name sort, the sort applied and its result
VARIABLES
  soIn, soOp, soOut
sovars == <<soIn, soOp, soOut>>

\* the file manager: the props data and lastFolderId, the states currentFolder
\* and path, and whether the initialisation effect has run
VARIABLES
  pmData, pmLast, pmCurrent, pmPath, pmDone
pmvars == <<pmData, pmLast, pmCurrent, pmPath, pmDone>>

\* per call: the state of the promise preloadComic returned; the calls whose
\* rejection no handler took (an unhandled rejection)
VARIABLES
  plPromise, plUnhandled
plvars == <<plPromise, plUnhandled>>

\* the calls of getNextId in flight
VARIABLES
  idCall,    \* per call: its position, its counter, the value read, its id
  idQueue,   \* the transactions on the metadata store, oldest first
  idHanded   \* the ids resolved, in the order of their resolution
idvars == <<idCall, idQueue, idHanded>>

vars == <<dlvars, syvars, pgvars, bfvars, lfvars, fsvars, lgvars, rdvars, lpvars, mfvars, sovars, pmvars, plvars, idvars>>

\* what the download actions, the snapshot actions and the progress actions
\* leave alone
notdl == <<syvars, pgvars, bfvars, lfvars, fsvars, lgvars, rdvars, lpvars, mfvars, sovars, pmvars, idvars>>
notsy == <<dlvars, pgvars, bfvars, lfvars, fsvars, lgvars, rdvars, lpvars, sovars, pmvars, plvars, idvars>>
notpg == <<dlvars, bfvars, lfvars, fsvars, lgvars, rdvars, lpvars, mfvars, sovars, pmvars, plvars, idvars>>
notbf == <<dlvars, syvars, pgvars, lfvars, fsvars, lgvars, rdvars, lpvars, mfvars, sovars, pmvars, plvars, idvars>>
notlf == <<dlvars, syvars, pgvars, bfvars, fsvars, lgvars, rdvars, lpvars, mfvars, sovars, pmvars, plvars, idvars>>
notfs == <<dlvars, syvars, pgvars, bfvars, lfvars, lgvars, rdvars, lpvars, mfvars, sovars, pmvars, plvars, idvars>>
notlg == <<dlvars, syvars, pgvars, bfvars, lfvars, rdvars, lpvars, mfvars, sovars, pmvars, plvars, idvars>>
notrd == <<dlvars, syvars, pgvars, bfvars, lfvars, fsvars, lgvars, lpvars, mfvars, sovars, pmvars, plvars, idvars>>
notlp == <<dlvars, syvars, pgvars, bfvars, lfvars, fsvars, lgvars, rdvars, mfvars, sovars, pmvars, plvars, idvars>>
notso == <<dlvars, syvars, pgvars, bfvars, lfvars, fsvars, lgvars, rdvars, lpvars, mfvars, pmvars, plvars, idvars>>
notid == <<dlvars, syvars, pgvars, bfvars, lfvars, lgvars, rdvars, lpvars, mfvars, sovars, pmvars, plvars>>
notpm == <<dlvars, syvars, pgvars, bfvars, lfvars, fsvars, lgvars, rdvars, lpvars, mfvars, sovars, plvars, idvars>>

\* ---- records -------------------------------------------------------------
NoBlob == 0
\* a missing row; also the value of `meta` before the first read
Absent == [id |-> 0, url |-> 0, status |-> "absent", progress |-> 0,
           downloadedAt |-> 0, error |-> "", data |-> NoBlob, fileSize |-> -1]

\* the link of a file node and the body the server sends for it
UrlOf(id) == 100 + id
BlobOf(url) == url

\* line 249 with the short-circuit lost: a cached record is never recognised
IsCached_Never(m) == m.status = "completed" /\ m.data # NoBlob /\ m.progress < 100

\* line 249: meta?.status === "completed" && meta?.data
IsCached(m) == m.status = "completed" /\ m.data # NoBlob

\* lines 254-259
InitMeta(id, url) ==
  [id |-> id, url |-> url, status |-> "in_progress", progress |-> 0,
   downloadedAt |-> 0, error |-> "", data |-> NoBlob, fileSize |-> -1]

\* lines 282-283
StartedMeta(m, contentLength) ==
  [m EXCEPT !.progress = 1, !.fileSize = contentLength]

\* lines 290-293 with line 293 (meta.data = data) left out
CompletedMeta_NoData(m, data, t) ==
  [m EXCEPT !.status = "completed", !.progress = 100, !.downloadedAt = t]

\* lines 290-293
CompletedMeta(m, data, t) ==
  [m EXCEPT !.status = "completed", !.progress = 100,
            !.downloadedAt = t, !.data = data]

\* error.message of the errors downloadComic can catch
MessageOf(err) ==
  CASE err = "TypeError" -> "Failed to fetch"
    [] err = "HttpError" -> "Network response error"
    [] err = "AbortError" -> "The operation was aborted"
    [] OTHER -> ""

\* lines 304-310
FailedMeta(m, err) ==
  IF err = "AbortError"
  THEN [m EXCEPT !.status = "failed", !.error = "Download timed out"]
  ELSE [m EXCEPT !.status = "failed",
                 !.error = IF MessageOf(err) # "" THEN MessageOf(err)
                           ELSE "Download failed"]

\* Table.put / Table.delete on the primary key id
Put(T, m) == [T EXCEPT ![m.id] = m]
Delete(T, id) == [T EXCEPT ![id] = Absent]

\* lines 377-381, applied to the record read at line 376
getDownloadedComic(m) ==
  IF m.status = "absent" \/ m.status # "completed" \/ m.data = NoBlob
  THEN NoBlob
  ELSE m.data

\* lines 352-355: where("status").equals("completed").toArray()
\* (as a set; the index returns the rows in primary-key order)
Completed(T) == {i \in Ids : T[i].status = "completed"}

\* lines 359-361: the stable sort by downloadedAt of rows that arrive in
\* primary-key order orders them by (downloadedAt, id)
Before(T, a, b) ==
  \/ T[a].downloadedAt < T[b].downloadedAt
  \/ T[a].downloadedAt = T[b].downloadedAt /\ a <= b

\* the k-th row of the sorted array is the row with k rows at or before it
SortByDownloadedAt(T, S) ==
  [k \in 1..Cardinality(S) |->
     CHOOSE a \in S : Cardinality({b \in S : Before(T, b, a)}) = k]

\* lines 357-364 with the limit off by one (> 11, length - 11)
ToDelete_OffByOne(T) ==
  LET completed == SortByDownloadedAt(T, Completed(T))
  IN IF Len(completed) > MaxComics + 1
     THEN SubSeq(completed, 1, Len(completed) - (MaxComics + 1))
     ELSE <<>>

\* lines 357-364: the ids enforceComicLimit decides to delete
ToDelete(T) ==
  LET completed == SortByDownloadedAt(T, Completed(T))
  IN IF Len(completed) > MaxComics
     THEN SubSeq(completed, 1, Len(completed) - MaxComics)
     ELSE <<>>

\* line 330: 1000 * (2 ** i), i the zero-based index of the failed attempt
Backoff(i) == BackoffBaseMs * (2 ^ i)

\* ---- initial state -------------------------------------------------------
\* The download table is persistent: it starts as earlier sequential
\* downloads of the ids 1..k left it (completed at the times 1..k); the
\* clock of this session is past all of them.
PrefilledTable(k) ==
  [i \in Ids |->
     IF i <= k
     THEN CompletedMeta(StartedMeta(InitMeta(i, UrlOf(i)), ContentLength(UrlOf(i))),
                        BlobOf(UrlOf(i)), i)
     ELSE Absent]

DlInitWith(prefills) ==
  /\ \E k \in prefills : comicDownloads = PrefilledTable(k) /\ now = k + 1
  /\ pc = [c \in Calls |-> "idle"]
  /\ cid = [c \in Calls |-> 0]
  /\ meta = [c \in Calls |-> Absent]
  /\ attempts = [c \in Calls |-> 0]
  /\ timeoutId = [c \in Calls |-> FALSE]
  /\ aborted = [c \in Calls |-> FALSE]
  /\ elapsed = [c \in Calls |-> FALSE]
  /\ delay = [c \in Calls |-> 0]
  /\ toDelete = [c \in Calls |-> <<>>]
  /\ result = [c \in Calls |-> Absent]
  /\ comicBlob = [c \in Calls |-> NoBlob]
  /\ lcMeta = [c \in Calls |-> Absent]

DlInit == DlInitWith(Prefills)

PlInit ==
  /\ plPromise = [c \in Calls |-> "none"]
  /\ plUnhandled = {}

\* ---- loadComic (part_005 lines 114-148) and preloadComic ------------------
\* line 115: comicBlob = await db.getDownloadedComic(id)
LoadComic(c, id) ==
  /\ Foreground(c)
  /\ pc[c] = "idle"
  /\ cid' = [cid EXCEPT ![c] = id]
  /\ lcMeta' = [lcMeta EXCEPT ![c] = comicDownloads[id]]
  /\ comicBlob' = [comicBlob EXCEPT ![c] = getDownloadedComic(lcMeta'[c])]
  /\ pc' = [pc EXCEPT ![c] = "lcGet"]
  /\ UNCHANGED <<comicDownloads, now, meta, attempts, timeoutId, aborted,
                 elapsed, delay, toDelete, result>>
  /\ UNCHANGED notdl
  /\ UNCHANGED plvars

\* lines 118-134: a blob is shown at once; otherwise downloadComic is called,
\* which issues comicDownloads.get(id) (dexieDB.ts line 248)
LoadDecide(c) ==
  /\ pc[c] = "lcGet"
  /\ IF comicBlob[c] # NoBlob
     THEN /\ pc' = [pc EXCEPT ![c] = "shown"]
          /\ UNCHANGED meta
     ELSE /\ meta' = [meta EXCEPT ![c] = comicDownloads[cid[c]]]
          /\ pc' = [pc EXCEPT ![c] = "get"]
  /\ UNCHANGED <<comicDownloads, now, cid, attempts, timeoutId, aborted,
                 elapsed, delay, toDelete, result, comicBlob, lcMeta>>
  /\ UNCHANGED notdl
  /\ UNCHANGED plvars

\* dexieDB.ts lines 341-345 (called at part_005 line 283): downloadComic is
\* started and not awaited; it issues comicDownloads.get(id) (line 248). The
\* body of preloadComic ends there, which resolves the promise it returned.
\* Preload slots are taken in order.
preloadComic(c, id) ==
  /\ ~Foreground(c)
  /\ pc[c] = "idle"
  /\ \A d \in Calls : (~Foreground(d) /\ d < c) => pc[d] # "idle"
  /\ cid' = [cid EXCEPT ![c] = id]
  /\ meta' = [meta EXCEPT ![c] = comicDownloads[id]]
  /\ pc' = [pc EXCEPT ![c] = "get"]
  /\ UNCHANGED <<comicDownloads, now, attempts, timeoutId, aborted, elapsed,
                 delay, toDelete, result, comicBlob, lcMeta>>
  /\ UNCHANGED notdl
  /\ plPromise' = [plPromise EXCEPT ![c] = "resolved"]
  /\ UNCHANGED plUnhandled

\* ---- downloadComic (dexieDB.ts lines 243-315) -----------------------------
\* lines 249-270 with the record read at line 248 kept and only its status reset
CheckCached_Resume(c) ==
  /\ pc[c] = "get"
  /\ IF IsCached(meta[c])
     THEN /\ result' = [result EXCEPT ![c] = meta[c]]
          /\ pc' = [pc EXCEPT ![c] = "resolved"]
          /\ UNCHANGED <<comicDownloads, meta, timeoutId, attempts>>
     ELSE /\ meta' = [meta EXCEPT ![c] =
                        IF meta[c].status = "absent"
                        THEN InitMeta(cid[c], UrlOf(cid[c]))
                        ELSE [meta[c] EXCEPT !.status = "in_progress"]]
          /\ comicDownloads' = Put(comicDownloads, meta'[c])
          /\ timeoutId' = [timeoutId EXCEPT ![c] = TRUE]
          /\ attempts' = [attempts EXCEPT ![c] = 1]
          /\ pc' = [pc EXCEPT ![c] = "fetch"]
          /\ UNCHANGED result
  /\ UNCHANGED <<now, cid, aborted, elapsed, delay, toDelete, comicBlob, lcMeta>>
  /\ UNCHANGED notdl
  /\ UNCHANGED plvars

\* lines 249-270 and 323-325: return the cached record, or persist the
\* in_progress record, arm the timer and make the first fetch of retryFetch
CheckCached(c) ==
  /\ pc[c] = "get"
  /\ IF IsCached(meta[c])
     THEN /\ result' = [result EXCEPT ![c] = meta[c]]
          /\ pc' = [pc EXCEPT ![c] = "resolved"]
          /\ UNCHANGED <<comicDownloads, meta, timeoutId, attempts>>
     ELSE /\ meta' = [meta EXCEPT ![c] = InitMeta(cid[c], UrlOf(cid[c]))]
          /\ comicDownloads' = Put(comicDownloads, meta'[c])
          /\ timeoutId' = [timeoutId EXCEPT ![c] = TRUE]
          /\ attempts' = [attempts EXCEPT ![c] = 1]
          /\ pc' = [pc EXCEPT ![c] = "fetch"]
          /\ UNCHANGED result
  /\ UNCHANGED <<now, cid, aborted, elapsed, delay, toDelete, comicBlob, lcMeta>>
  /\ UNCHANGED notdl
  /\ UNCHANGED plvars

\* lines 300-313 with the put of line 312 left out
Catch_NoPut(c, err) ==
  /\ timeoutId' = [timeoutId EXCEPT ![c] = FALSE]
  /\ meta' = [meta EXCEPT ![c] = FailedMeta(meta[c], err)]
  /\ comicDownloads' = comicDownloads
  /\ pc' = [pc EXCEPT ![c] = "rejected"]

\* lines 300-313: the catch block, which rethrows
Catch(c, err) ==
  /\ timeoutId' = [timeoutId EXCEPT ![c] = FALSE]
  /\ meta' = [meta EXCEPT ![c] = FailedMeta(meta[c], err)]
  /\ comicDownloads' = Put(comicDownloads, meta'[c])
  /\ pc' = [pc EXCEPT ![c] = "rejected"]

\* lines 272-287: the response headers arrive; on an ok response the timer
\* is cleared, the progress is persisted and the body is read
FetchResponse(c, ok) ==
  /\ pc[c] = "fetch"
  /\ ~aborted[c]
  /\ IF ok
     THEN /\ timeoutId' = [timeoutId EXCEPT ![c] = FALSE]
          /\ meta' = [meta EXCEPT ![c] = StartedMeta(meta[c], ContentLength(meta[c].url))]
          /\ comicDownloads' = Put(comicDownloads, meta'[c])
          /\ pc' = [pc EXCEPT ![c] = "blob"]
     ELSE Catch(c, "HttpError")
  /\ UNCHANGED <<now, cid, attempts, aborted, elapsed, delay, toDelete, result,
                 comicBlob, lcMeta>>
  /\ UNCHANGED notdl
  /\ UNCHANGED plvars

\* lines 326-335: fetch rejects (network error, or AbortError once the signal
\* is aborted); retryFetch waits and retries, or throws the error caught
\* last (lastError) after the last attempt
FetchError(c) ==
  /\ pc[c] = "fetch"
  /\ LET lastError == IF aborted[c] THEN "AbortError" ELSE "TypeError" IN
       IF attempts[c] - 1 < Attempts - 1
       THEN /\ delay' = [delay EXCEPT ![c] = Backoff(attempts[c] - 1)]
            /\ pc' = [pc EXCEPT ![c] = "backoff"]
            /\ UNCHANGED <<comicDownloads, meta, timeoutId>>
       ELSE /\ Catch(c, lastError)
            /\ UNCHANGED delay
  /\ UNCHANGED <<now, cid, attempts, aborted, elapsed, toDelete, result,
                 comicBlob, lcMeta>>
  /\ UNCHANGED notdl
  /\ UNCHANGED plvars

\* lines 323-325: the backoff timer fires, the next iteration calls fetch
BackoffDone(c) ==
  /\ pc[c] = "backoff"
  /\ attempts' = [attempts EXCEPT ![c] = @ + 1]
  /\ delay' = [delay EXCEPT ![c] = 0]
  /\ pc' = [pc EXCEPT ![c] = "fetch"]
  /\ UNCHANGED <<comicDownloads, now, cid, meta, timeoutId, aborted, elapsed,
                 toDelete, result, comicBlob, lcMeta>>
  /\ UNCHANGED notdl
  /\ UNCHANGED plvars

\* lines 287-294: the body has arrived; Date.now() may or may not have moved
\* since it was last read
BodyDone(c) ==
  /\ pc[c] = "blob"
  /\ \E dt \in 0..1 :
       /\ now' = now + dt
       /\ meta' = [meta EXCEPT ![c] = CompletedMeta(meta[c], BlobOf(meta[c].url), now + dt)]
  /\ comicDownloads' = Put(comicDownloads, meta'[c])
  /\ pc' = [pc EXCEPT ![c] = "putCompleted"]
  /\ UNCHANGED <<cid, attempts, timeoutId, aborted, elapsed, delay, toDelete,
                 result, comicBlob, lcMeta>>
  /\ UNCHANGED notdl
  /\ UNCHANGED plvars

\* line 287 rejects: the connection breaks while the body is read
BodyError(c) ==
  /\ pc[c] = "blob"
  /\ Catch(c, "TypeError")
  /\ UNCHANGED <<now, cid, attempts, aborted, elapsed, delay, toDelete, result,
                 comicBlob, lcMeta>>
  /\ UNCHANGED notdl
  /\ UNCHANGED plvars

\* lines 297, 352-364 and 299: enforceComicLimit queries the completed
\* records; with nothing to delete downloadComic returns meta
EnforceQuery(c) ==
  /\ pc[c] = "putCompleted"
  /\ toDelete' = [toDelete EXCEPT ![c] = ToDelete(comicDownloads)]
  /\ IF toDelete'[c] = <<>>
     THEN /\ result' = [result EXCEPT ![c] = meta[c]]
          /\ pc' = [pc EXCEPT ![c] = "resolved"]
     ELSE /\ pc' = [pc EXCEPT ![c] = "enforce"]
          /\ UNCHANGED result
  /\ UNCHANGED <<comicDownloads, now, cid, meta, attempts, timeoutId, aborted,
                 elapsed, delay, comicBlob, lcMeta>>
  /\ UNCHANGED notdl
  /\ UNCHANGED plvars

\* lines 365-367 and 299: delete the next record; after the last one
\* downloadComic returns meta
EnforceStep(c) ==
  /\ pc[c] = "enforce"
  /\ comicDownloads' = Delete(comicDownloads, Head(toDelete[c]))
  /\ toDelete' = [toDelete EXCEPT ![c] = Tail(@)]
  /\ IF toDelete'[c] = <<>>
     THEN /\ result' = [result EXCEPT ![c] = meta[c]]
          /\ pc' = [pc EXCEPT ![c] = "resolved"]
     ELSE UNCHANGED <<result, pc>>
  /\ UNCHANGED <<now, cid, meta, attempts, timeoutId, aborted, elapsed, delay,
                 comicBlob, lcMeta>>
  /\ UNCHANGED notdl
  /\ UNCHANGED plvars

\* line 264: 90 s have passed since the timer was set; the callback runs
\* only if the timer has not been cleared
Elapse(c) ==
  /\ pc[c] \in {"fetch", "backoff", "blob"}
  /\ ~elapsed[c]
  /\ elapsed' = [elapsed EXCEPT ![c] = TRUE]
  /\ aborted' = [aborted EXCEPT ![c] = timeoutId[c]]
  /\ UNCHANGED <<comicDownloads, now, pc, cid, meta, attempts, timeoutId,
                 delay, toDelete, result, comicBlob, lcMeta>>
  /\ UNCHANGED notdl
  /\ UNCHANGED plvars

\* part_005 lines 135-141: the download resolved, read the blob back
LoadReadBack(c) ==
  /\ Foreground(c)
  /\ pc[c] = "resolved"
  /\ lcMeta' = [lcMeta EXCEPT ![c] = comicDownloads[cid[c]]]
  /\ comicBlob' = [comicBlob EXCEPT ![c] = getDownloadedComic(lcMeta'[c])]
  /\ pc' = [pc EXCEPT ![c] = IF comicBlob'[c] # NoBlob THEN "shown" ELSE "error"]
  /\ UNCHANGED <<comicDownloads, now, cid, meta, attempts, timeoutId, aborted,
                 elapsed, delay, toDelete, result>>
  /\ UNCHANGED notdl
  /\ UNCHANGED plvars

\* part_005 lines 142-147: the download rejected
LoadFailed(c) ==
  /\ Foreground(c)
  /\ pc[c] = "rejected"
  /\ pc' = [pc EXCEPT ![c] = "error"]
  /\ UNCHANGED <<comicDownloads, now, cid, meta, attempts, timeoutId, aborted,
                 elapsed, delay, toDelete, result, comicBlob, lcMeta>>
  /\ UNCHANGED notdl
  /\ UNCHANGED plvars

\* dexieDB.ts lines 412-414 (downloaded/page.tsx line 56)
deleteDownloadedComic(id) ==
  /\ comicDownloads[id].status # "absent"
  /\ comicDownloads' = Delete(comicDownloads, id)
  /\ UNCHANGED <<now, pc, cid, meta, attempts, timeoutId, aborted, elapsed,
                 delay, toDelete, result, comicBlob, lcMeta>>
  /\ UNCHANGED notdl
  /\ UNCHANGED plvars

\* line 248 rejects: the storage request fails, downloadComic rejects before
\* it has written anything
DlGetError(c) ==
  /\ pc[c] = "get"
  /\ pc' = [pc EXCEPT ![c] = "rejected"]
  /\ UNCHANGED <<comicDownloads, now, cid, meta, attempts, timeoutId, aborted,
                 elapsed, delay, toDelete, result, comicBlob, lcMeta>>
  /\ UNCHANGED notdl
  /\ UNCHANGED plvars

\* lines 342-344 with a handler that throws the error again
PreloadCaught_Rethrow(c) ==
  /\ ~Foreground(c)
  /\ pc[c] = "rejected"
  /\ pc' = [pc EXCEPT ![c] = "logged"]
  /\ plUnhandled' = plUnhandled \cup {c}
  /\ UNCHANGED plPromise
  /\ UNCHANGED <<comicDownloads, now, cid, meta, attempts, timeoutId, aborted,
                 elapsed, delay, toDelete, result, comicBlob, lcMeta>>
  /\ UNCHANGED notdl

\* lines 342-344: the handler given to catch logs the error and returns
PreloadCaught(c) ==
  /\ ~Foreground(c)
  /\ pc[c] = "rejected"
  /\ pc' = [pc EXCEPT ![c] = "logged"]
  /\ UNCHANGED plvars
  /\ UNCHANGED <<comicDownloads, now, cid, meta, attempts, timeoutId, aborted,
                 elapsed, delay, toDelete, result, comicBlob, lcMeta>>
  /\ UNCHANGED notdl

DlNext ==
  \/ \E c \in Calls, id \in Wanted : LoadComic(c, id)
  \/ \E c \in Calls : LoadDecide(c)
  \/ \E c \in Calls, id \in Wanted : preloadComic(c, id)
  \/ \E c \in Calls : CheckCached(c)
  \/ \E c \in Calls, ok \in BOOLEAN : FetchResponse(c, ok)
  \/ \E c \in Calls : FetchError(c)
  \/ \E c \in Calls : BackoffDone(c)
  \/ \E c \in Calls : BodyDone(c)
  \/ \E c \in Calls : BodyError(c)
  \/ \E c \in Calls : EnforceQuery(c)
  \/ \E c \in Calls : EnforceStep(c)
  \/ \E c \in Calls : Elapse(c)
  \/ \E c \in Calls : LoadReadBack(c)
  \/ \E c \in Calls : LoadFailed(c)
  \/ \E id \in Wanted : deleteDownloadedComic(id)

\* ==== content snapshot: getComicsData, updateFromRemoteDB ====================
Tasks == 1..NumTasks
FileIds == 1..3

\* ---- content items (src/lib/types.ts) ---------------------------------------
\* a name is the sequence of its characters (as numbers)
FileNode(id, name, readStatus, lastPage, totalPages) ==
  [type |-> "file", id |-> id, name |-> name, size |-> 10 * id,
   extension |-> "cbz", link |-> UrlOf(id),
   readStatus |-> readStatus, lastPage |-> lastPage, totalPages |-> totalPages]
FolderNode(id, name, children) ==
  [type |-> "folder", id |-> id, name |-> name, children |-> children]

\* the file nodes of a tree, at any depth
RECURSIVE FilesOf(_)
FilesOf(data) ==
  UNION {IF data[i].type = "file" THEN {data[i]} ELSE FilesOf(data[i].children)
           : i \in 1..Len(data)}

\* rows of the progress table
NoStatus == [status |-> "none", lastPage |-> 0, totalPages |-> 0]
NoProgress == [i \in FileIds |-> NoStatus]

\* the row "root" of the snapshot table
NoRoot == [present |-> FALSE, content |-> <<>>]
Root(data) == [present |-> TRUE, content |-> data]

\* what getComicsData resolves with
Undefined == [defined |-> FALSE, content |-> <<>>]
Defined(data) == [defined |-> TRUE, content |-> data]

\* lines 417-442: statusMap holds the rows of the progress table
RECURSIVE processItem(_, _)
processItem(item, statusMap) ==
  IF item.type = "file"
  THEN IF statusMap[item.id] # NoStatus
       THEN [item EXCEPT !.readStatus = statusMap[item.id].status,
                         !.lastPage = statusMap[item.id].lastPage,
                         !.totalPages = statusMap[item.id].totalPages]
       ELSE [item EXCEPT !.readStatus = "unread", !.lastPage = 0, !.totalPages = 0]
  ELSE IF item.type = "folder"
  THEN [item EXCEPT !.children =
          [i \in 1..Len(item.children) |-> processItem(item.children[i], statusMap)]]
  ELSE item

\* lines 417-442 with the recursion into folders (lines 435-438) left out
updateStatusInData_Shallow(data, statusMap) ==
  [i \in 1..Len(data) |->
     IF data[i].type = "file" THEN processItem(data[i], statusMap) ELSE data[i]]

updateStatusInData(data, statusMap) ==
  [i \in 1..Len(data) |-> processItem(data[i], statusMap)]

\* line 478: a.name.localeCompare(b.name), as the order of the character
\* sequences: negative, zero or positive
RECURSIVE localeCompare(_, _)
localeCompare(a, b) ==
  IF a = <<>> /\ b = <<>> THEN 0
  ELSE IF a = <<>> THEN -1
  ELSE IF b = <<>> THEN 1
  ELSE IF Head(a) < Head(b) THEN -1
  ELSE IF Head(a) > Head(b) THEN 1
  ELSE localeCompare(Tail(a), Tail(b))

\* Array.prototype.sort is stable: an item goes behind the items that do not
\* compare greater
RECURSIVE InsertByName(_, _)
InsertByName(item, sorted) ==
  IF sorted = <<>> THEN <<item>>
  ELSE IF localeCompare(Head(sorted).name, item.name) <= 0
  THEN <<Head(sorted)>> \o InsertByName(item, Tail(sorted))
  ELSE <<item>> \o sorted

RECURSIVE SortByName(_)
SortByName(items) ==
  IF items = <<>> THEN <<>>
  ELSE InsertByName(items[Len(items)], SortByName(SubSeq(items, 1, Len(items) - 1)))

\* lines 476-489
RECURSIVE sortFolderContents(_)
sortFolderContents(data) ==
  LET sorted == SortByName(data)
  IN [i \in 1..Len(sorted) |->
        IF sorted[i].type = "folder"
        THEN [sorted[i] EXCEPT !.children = sortFolderContents(sorted[i].children)]
        ELSE sorted[i]]

\* ---- what the remote can answer ---------------------------------------------
\* two versions of the listing; the remote supplies read-status values of its own
TreeA ==
  << FolderNode(20, <<2>>, << FileNode(2, <<2>>, "unread", 0, 0),
                              FileNode(1, <<1>>, "unread", 0, 0) >>),
     FileNode(3, <<1>>, "completed", 4, 9) >>
TreeB == << FileNode(1, <<1>>, "unread", 0, 0) >>

\* the value response.json() yields: what the code inspects at lines 191-197
RawArray(items) ==
  [json |-> "array", items |-> items, type |-> "", hasChildren |-> FALSE,
   children |-> <<>>, hasContent |-> FALSE, content |-> <<>>]
RawObject(type, hasChildren, children, hasContent, content) ==
  [json |-> "object", items |-> <<>>, type |-> type, hasChildren |-> hasChildren,
   children |-> children, hasContent |-> hasContent, content |-> content]
RawOther(json) ==
  [json |-> json, items |-> <<>>, type |-> "", hasChildren |-> FALSE,
   children |-> <<>>, hasContent |-> FALSE, content |-> <<>>]
\* a value that is no array (a number) in the place of children or content
NotArray == << [type |-> "notArray"] >>
\* "syntaxError": response.json() rejects
Manifests ==
  { RawArray(TreeA),
    RawObject("folder", TRUE, TreeB, FALSE, <<>>),
    RawObject("", FALSE, <<>>, TRUE, TreeA),
    RawObject("", FALSE, <<>>, FALSE, <<>>),
    RawObject("file", TRUE, TreeB, FALSE, <<>>),
    RawObject("", FALSE, <<>>, TRUE, NotArray),
    RawOther("null"),
    RawOther("number"),
    RawOther("string"),
    RawOther("syntaxError") }
NoManifest == RawOther("none")
MfInit == traw = [t \in Tasks |-> NoManifest]

ExtractData_AnyObject(rawData) ==
  IF rawData.json = "array"
  THEN [ok |-> TRUE, data |-> rawData.items]
  ELSE IF rawData.json = "object"
  THEN IF rawData.hasChildren /\ rawData.type = "folder"
       THEN [ok |-> TRUE, data |-> rawData.children]
       ELSE [ok |-> TRUE, data |-> rawData.content]
  ELSE [ok |-> FALSE, data |-> <<>>]

\* lines 189-207: the data taken from rawData, or a format error
ExtractData(rawData) ==
  IF rawData.json = "array"
  THEN [ok |-> TRUE, data |-> rawData.items]
  ELSE IF rawData.json = "object"
  THEN IF rawData.hasChildren /\ rawData.type = "folder"
       THEN [ok |-> TRUE, data |-> rawData.children]
       ELSE IF rawData.hasContent
       THEN [ok |-> TRUE, data |-> rawData.content]
       ELSE [ok |-> FALSE, data |-> <<>>]
  ELSE [ok |-> FALSE, data |-> <<>>]

\* ---- initial state ----------------------------------------------------------
\* Both tables are persistent: the progress table is empty or holds a row
\* for file 1; the snapshot table is empty or holds the listing TreeB as an
\* earlier sync stored it.
Progresses ==
  { NoProgress,
    [NoProgress EXCEPT ![1] = [status |-> "in_progress", lastPage |-> 3, totalPages |-> 10]] }

SyInitOf(progresses, listings) ==
  /\ readComics \in progresses
  /\ comics \in {NoRoot} \cup
       {Root(sortFolderContents(updateStatusInData(l, readComics))) : l \in listings}
  /\ persisted = comics.present
  /\ tpc = [t \in Tasks |-> "idle"]
  /\ top = [t \in Tasks |-> "none"]
  /\ tdata = [t \in Tasks |-> <<>>]
  /\ troot = [t \in Tasks |-> NoRoot]
  /\ tmap = [t \in Tasks |-> NoProgress]
  /\ tres = [t \in Tasks |-> Undefined]
  /\ tsaw = [t \in Tasks |-> FALSE]

SyInitWith(progresses, stored) ==
  SyInitOf(progresses, IF stored THEN {TreeB} ELSE {})

SyInit == SyInitWith(Progresses, TRUE)

\* ---- getComicsData (dexieDB.ts lines 71-88) ----------------------------------
\* line 72: const root = await this.comics.get("root")
\* (called at app/page.tsx line 22 and part_005 lines 43 and 242)
getComicsData(t) ==
  /\ tpc[t] = "idle"
  /\ top' = [top EXCEPT ![t] = "getComicsData"]
  /\ tsaw' = [tsaw EXCEPT ![t] = persisted]
  /\ troot' = [troot EXCEPT ![t] = comics]
  /\ tpc' = [tpc EXCEPT ![t] = "gcGet"]
  /\ UNCHANGED <<comics, readComics, tdata, tmap, tres, persisted>>
  /\ UNCHANGED traw
  /\ UNCHANGED notsy

\* lines 73-76: without a root the call returns undefined (and the catch
\* block of updateFromRemoteDB rethrows, lines 233-235); otherwise it reads
\* the progress rows
GcRoot(t) ==
  /\ tpc[t] = "gcGet"
  /\ IF ~troot[t].present
     THEN /\ tres' = [tres EXCEPT ![t] = Undefined]
          /\ tpc' = [tpc EXCEPT ![t] = IF top[t] = "getComicsData" THEN "done" ELSE "rejected"]
          /\ UNCHANGED tmap
     ELSE /\ tmap' = [tmap EXCEPT ![t] = readComics]
          /\ tpc' = [tpc EXCEPT ![t] = "gcRead"]
          /\ UNCHANGED tres
  /\ UNCHANGED <<comics, readComics, top, tdata, troot, persisted, tsaw>>
  /\ UNCHANGED traw
  /\ UNCHANGED notsy

\* lines 77-87: annotate root.content and return it
GcReturn(t) ==
  /\ tpc[t] = "gcRead"
  /\ tres' = [tres EXCEPT ![t] = Defined(updateStatusInData(troot[t].content, tmap[t]))]
  /\ tpc' = [tpc EXCEPT ![t] = "done"]
  /\ UNCHANGED <<comics, readComics, top, tdata, troot, tmap, persisted, tsaw>>
  /\ UNCHANGED traw
  /\ UNCHANGED notsy

\* ---- updateFromRemoteDB (lines 179-237), storeComicsData (lines 63-68) -------
\* line 181: await fetch(".../contents.json") (called at app/page.tsx line 29)
updateFromRemoteDB(t) ==
  /\ tpc[t] = "idle"
  /\ top' = [top EXCEPT ![t] = "updateFromRemoteDB"]
  /\ tsaw' = [tsaw EXCEPT ![t] = persisted]
  /\ tpc' = [tpc EXCEPT ![t] = "fetch"]
  /\ UNCHANGED <<comics, readComics, tdata, troot, tmap, tres, persisted>>
  /\ UNCHANGED traw
  /\ UNCHANGED notsy

\* lines 228-235 with the fallback of lines 232-233 left out
SyncCatch_NoFallback(t) ==
  /\ tpc' = [tpc EXCEPT ![t] = "rejected"]
  /\ UNCHANGED <<tdata, troot, tmap>>

\* lines 228-232: the catch block calls getComicsData, which reads the root
SyncCatch(t) ==
  /\ troot' = [troot EXCEPT ![t] = comics]
  /\ tpc' = [tpc EXCEPT ![t] = "gcGet"]
  /\ UNCHANGED <<tdata, tmap>>

\* lines 181-186: the fetch rejects, or answers not ok, or answers ok and
\* the body is read
SyncFetched(t, outcome) ==
  /\ tpc[t] = "fetch"
  /\ IF outcome = "ok"
     THEN /\ tpc' = [tpc EXCEPT ![t] = "json"]
          /\ UNCHANGED <<tdata, troot, tmap>>
     ELSE SyncCatch(t)
  /\ UNCHANGED <<comics, readComics, top, tres, persisted, tsaw>>
  /\ UNCHANGED traw
  /\ UNCHANGED notsy

\* lines 186-216: the body is parsed, the data extracted and the progress
\* rows read
SyncJson(t, rawData) ==
  /\ tpc[t] = "json"
  /\ IF rawData.json # "syntaxError" /\ ExtractData(rawData).ok
     THEN /\ tdata' = [tdata EXCEPT ![t] = ExtractData(rawData).data]
          /\ tmap' = [tmap EXCEPT ![t] = readComics]
          /\ tpc' = [tpc EXCEPT ![t] = "getRead"]
          /\ UNCHANGED troot
     ELSE SyncCatch(t)
  /\ UNCHANGED <<comics, readComics, top, tres, persisted, tsaw>>
  /\ traw' = [traw EXCEPT ![t] = rawData]
  /\ UNCHANGED notsy

\* lines 219-225 and 65: annotate, sort, then storeComicsData clears the
\* table; data.forEach (line 441) throws when data is no array, and the catch
\* block takes over
SyncClear(t) ==
  /\ tpc[t] = "getRead"
  /\ IF tdata[t] = NotArray
     THEN SyncCatch(t) /\ UNCHANGED comics
     ELSE /\ tdata' = [tdata EXCEPT ![t] = sortFolderContents(updateStatusInData(tdata[t], tmap[t]))]
          /\ comics' = NoRoot
          /\ tpc' = [tpc EXCEPT ![t] = "clear"]
          /\ UNCHANGED <<troot, tmap>>
  /\ UNCHANGED <<readComics, top, tres, persisted, tsaw>>
  /\ UNCHANGED traw
  /\ UNCHANGED notsy

\* lines 67 and 227: put the new root, return data
SyncPut(t) ==
  /\ tpc[t] = "clear"
  /\ comics' = Root(tdata[t])
  /\ persisted' = TRUE
  /\ tres' = [tres EXCEPT ![t] = Defined(tdata[t])]
  /\ tpc' = [tpc EXCEPT ![t] = "done"]
  /\ UNCHANGED <<readComics, top, tdata, troot, tmap, tsaw>>
  /\ UNCHANGED traw
  /\ UNCHANGED notsy

SyNext ==
  \/ \E t \in Tasks : getComicsData(t)
  \/ \E t \in Tasks : GcRoot(t)
  \/ \E t \in Tasks : GcReturn(t)
  \/ \E t \in Tasks : updateFromRemoteDB(t)
  \/ \E t \in Tasks, outcome \in {"ok", "notOk", "networkError"} : SyncFetched(t, outcome)
  \/ \E t \in Tasks, rawData \in Manifests : SyncJson(t, rawData)
  \/ \E t \in Tasks : SyncClear(t)
  \/ \E t \in Tasks : SyncPut(t)

\* ==== reading progress: markComicStatus, setTotalPages =========================
Ops == 1..NumOps
Statuses == {"unread", "in_progress", "completed"}
\* the files progress is written for
PgIds == {1, 2}
\* images.length once the archive of a comic has been extracted
ImagesOf(id) == IF id = 1 THEN NumPages - 1 ELSE NumPages

\* part_006 lines 96-99 with newPage = mostVisibleIndex + 2
PagesOf_Beyond(len) == 2..(len + 1)

\* part_006 lines 96-99: the pages ComicView reports, mostVisibleIndex + 1
PagesOf(len) == 1..len

\* a row of the progress table (ReadComic without its key)
Row(status, lastPage, totalPages) ==
  [status |-> status, lastPage |-> lastPage, totalPages |-> totalPages]
NoArg == [id |-> 0, status |-> "", lastPage |-> 0, totalPages |-> 0]
NoPre == [readComics |-> NoProgress, comics |-> NoRoot]

\* line 92: readComics.get(id)
getComicStatus(table, id) == table[id]

\* lines 445-473: the first file with the id found in a top-level item gets
\* the values; the search of a folder stops at the first hit
RECURSIVE UpdItem(_, _, _, _, _)
RECURSIVE UpdChildren(_, _, _, _, _)
UpdItem(item, id, status, lastPage, totalPages) ==
  IF item.type = "file" /\ item.id = id
  THEN [item |-> [item EXCEPT !.readStatus = status, !.lastPage = lastPage,
                              !.totalPages = totalPages],
        found |-> TRUE]
  ELSE IF item.type = "folder"
  THEN LET r == UpdChildren(item.children, id, status, lastPage, totalPages)
       IN [item |-> [item EXCEPT !.children = r.items], found |-> r.found]
  ELSE [item |-> item, found |-> FALSE]
UpdChildren(children, id, status, lastPage, totalPages) ==
  IF children = <<>> THEN [items |-> <<>>, found |-> FALSE]
  ELSE LET h == UpdItem(Head(children), id, status, lastPage, totalPages)
       IN IF h.found
          THEN [items |-> <<h.item>> \o Tail(children), found |-> TRUE]
          ELSE LET r == UpdChildren(Tail(children), id, status, lastPage, totalPages)
               IN [items |-> <<h.item>> \o r.items, found |-> r.found]

\* lines 445-473 with totalPages left undefined (line 457)
updateStatusForId_NoTotal(data, id, status, lastPage, totalPages) ==
  [i \in 1..Len(data) |-> UpdItem(data[i], id, status, lastPage, -1).item]

updateStatusForId(data, id, status, lastPage, totalPages) ==
  [i \in 1..Len(data) |-> UpdItem(data[i], id, status, lastPage, totalPages).item]

\* lines 114-125 with the existing row not spread into the new one
Upsert_Reset(comic, totalPages) == Row("unread", 0, totalPages)

\* lines 114-125: { ...comic, totalPages } or the default row
Upsert(comic, totalPages) ==
  IF comic # NoStatus THEN [comic EXCEPT !.totalPages = totalPages]
  ELSE Row("unread", 0, totalPages)

\* ---- initial state ----------------------------------------------------------
PgInit ==
  /\ ppc = [o \in Ops |-> "idle"]
  /\ pop = [o \in Ops |-> "none"]
  /\ parg = [o \in Ops |-> NoArg]
  /\ pcomic = [o \in Ops |-> NoStatus]
  /\ proot = [o \in Ops |-> NoRoot]
  /\ ppre = [o \in Ops |-> NoPre]

\* call slots are taken in order
Free(o) == ppc[o] = "idle" /\ \A q \in Ops : q < o => ppc[q] # "idle"
\* no progress call is under way
Quiet == \A o \in Ops : ppc[o] \in {"idle", "done"}
\* history: both tables at the start of a call that starts while no other
\* progress call is under way
Pre == IF Quiet THEN [readComics |-> readComics, comics |-> comics] ELSE NoPre

\* ---- markComicStatus (dexieDB.ts lines 96-110) --------------------------------
\* line 102: readComics.put({ id, status, lastPage, totalPages })
markComicStatus(o, id, status, lastPage, totalPages) ==
  /\ Free(o)
  /\ pop' = [pop EXCEPT ![o] = "markComicStatus"]
  /\ parg' = [parg EXCEPT ![o] = [id |-> id, status |-> status,
                                  lastPage |-> lastPage, totalPages |-> totalPages]]
  /\ ppre' = [ppre EXCEPT ![o] = Pre]
  /\ readComics' = [readComics EXCEPT ![id] = Row(status, lastPage, totalPages)]
  /\ ppc' = [ppc EXCEPT ![o] = "mcsPut"]
  /\ UNCHANGED <<pcomic, proot>>
  /\ UNCHANGED <<comics, tpc, top, tdata, troot, tmap, tres, persisted, tsaw>>
  /\ UNCHANGED notpg

\* line 105: comics.get("root")
McsGetRoot(o) ==
  /\ ppc[o] = "mcsPut"
  /\ proot' = [proot EXCEPT ![o] = comics]
  /\ ppc' = [ppc EXCEPT ![o] = "mcsGet"]
  /\ UNCHANGED <<pop, parg, pcomic, ppre>>
  /\ UNCHANGED syvars
  /\ UNCHANGED notpg

\* lines 106-109: with a root, update the file node and put the root back
McsPutRoot(o) ==
  /\ ppc[o] = "mcsGet"
  /\ IF proot[o].present
     THEN comics' = Root(updateStatusForId(proot[o].content, parg[o].id, parg[o].status,
                                           parg[o].lastPage, parg[o].totalPages))
     ELSE UNCHANGED comics
  /\ ppc' = [ppc EXCEPT ![o] = "done"]
  /\ UNCHANGED <<pop, parg, pcomic, proot, ppre>>
  /\ UNCHANGED <<readComics, tpc, top, tdata, troot, tmap, tres, persisted, tsaw>>
  /\ UNCHANGED notpg

\* ---- setTotalPages (dexieDB.ts lines 112-133) ----------------------------------
\* line 113: readComics.get(id)
setTotalPages(o, id, totalPages) ==
  /\ Free(o)
  /\ pop' = [pop EXCEPT ![o] = "setTotalPages"]
  /\ parg' = [parg EXCEPT ![o] = [id |-> id, status |-> "", lastPage |-> 0,
                                  totalPages |-> totalPages]]
  /\ ppre' = [ppre EXCEPT ![o] = Pre]
  /\ pcomic' = [pcomic EXCEPT ![o] = getComicStatus(readComics, id)]
  /\ ppc' = [ppc EXCEPT ![o] = "stpGet"]
  /\ UNCHANGED proot
  /\ UNCHANGED syvars
  /\ UNCHANGED notpg

\* lines 114-125: put the row with the new totalPages
StpPut(o) ==
  /\ ppc[o] = "stpGet"
  /\ readComics' = [readComics EXCEPT ![parg[o].id] = Upsert(pcomic[o], parg[o].totalPages)]
  /\ ppc' = [ppc EXCEPT ![o] = "stpPut"]
  /\ UNCHANGED <<pop, parg, pcomic, proot, ppre>>
  /\ UNCHANGED <<comics, tpc, top, tdata, troot, tmap, tres, persisted, tsaw>>
  /\ UNCHANGED notpg

\* line 128: comics.get("root")
StpGetRoot(o) ==
  /\ ppc[o] = "stpPut"
  /\ proot' = [proot EXCEPT ![o] = comics]
  /\ ppc' = [ppc EXCEPT ![o] = "stpRoot"]
  /\ UNCHANGED <<pop, parg, pcomic, ppre>>
  /\ UNCHANGED syvars
  /\ UNCHANGED notpg

\* lines 129-132: with a root, update the file node with comic?.status ||
\* "unread", comic?.lastPage || 0 and totalPages, and put the root back
StpPutRoot(o) ==
  /\ ppc[o] = "stpRoot"
  /\ IF proot[o].present
     THEN comics' = Root(updateStatusForId(proot[o].content, parg[o].id,
                           IF pcomic[o] # NoStatus THEN pcomic[o].status ELSE "unread",
                           IF pcomic[o] # NoStatus THEN pcomic[o].lastPage ELSE 0,
                           parg[o].totalPages))
     ELSE UNCHANGED comics
  /\ ppc' = [ppc EXCEPT ![o] = "done"]
  /\ UNCHANGED <<pop, parg, pcomic, proot, ppre>>
  /\ UNCHANGED <<readComics, tpc, top, tdata, troot, tmap, tres, persisted, tsaw>>
  /\ UNCHANGED notpg

\* ---- the callers ------------------------------------------------------------
\* part_001 lines 240-252: a click on a file of the tree the file manager
\* shows (the tree a getComicsData call t returned); the call of line 245
\* passes no totalPages
handleFileClick(o, t, file) ==
  /\ top[t] = "getComicsData" /\ tpc[t] = "done" /\ tres[t].defined
  /\ file \in FilesOf(tres[t].content)
  /\ markComicStatus(o, file.id,
                     IF file.readStatus # "" THEN file.readStatus ELSE "in_progress",
                     IF file.lastPage # 0 THEN file.lastPage ELSE 0,
                     0)

\* part_005 lines 296-307 with the get of setTotalPages ordered before the put
\* of markComicStatus
PageChange_GetFirst(o, id, currentPage, len) ==
  /\ Free(o) /\ o + 1 \in Ops
  /\ currentPage # 0
  /\ \/ currentPage = getComicStatus(readComics, id).lastPage
     \/ len # 0 /\ currentPage \in PagesOf(len)
  /\ LET status == IF currentPage = len \/ currentPage = len - 1
                   THEN "completed" ELSE "in_progress"
     IN /\ pop' = [pop EXCEPT ![o] = "markComicStatus", ![o + 1] = "setTotalPages"]
        /\ parg' = [parg EXCEPT
             ![o] = [id |-> id, status |-> status, lastPage |-> currentPage, totalPages |-> 0],
             ![o + 1] = [id |-> id, status |-> "", lastPage |-> 0, totalPages |-> len]]
        /\ readComics' = [readComics EXCEPT ![id] = Row(status, currentPage, 0)]
  /\ ppre' = [ppre EXCEPT ![o] = Pre, ![o + 1] = NoPre]
  /\ pcomic' = [pcomic EXCEPT ![o + 1] = getComicStatus(readComics, id)]
  /\ ppc' = [ppc EXCEPT ![o] = "mcsPut", ![o + 1] = "stpGet"]
  /\ UNCHANGED proot
  /\ UNCHANGED <<comics, tpc, top, tdata, troot, tmap, tres, persisted, tsaw>>
  /\ UNCHANGED notpg

\* part_005 lines 296-307: the effect on [currentPage, images.length].  Before
\* the archive is extracted images.length is 0 and currentPage is the
\* lastPage loadComicStatus restored (lines 219-225); afterwards currentPage
\* is that page or a page ComicView reports.  markComicStatus (put issued, line 102) and
\* setTotalPages (get issued, line 113) are started without being awaited.
PageChange(o, id, currentPage, len) ==
  /\ Free(o) /\ o + 1 \in Ops
  /\ currentPage # 0
  /\ \/ currentPage = getComicStatus(readComics, id).lastPage
     \/ len # 0 /\ currentPage \in PagesOf(len)
  /\ LET status == IF currentPage = len \/ currentPage = len - 1
                   THEN "completed" ELSE "in_progress"
     IN /\ pop' = [pop EXCEPT ![o] = "markComicStatus", ![o + 1] = "setTotalPages"]
        /\ parg' = [parg EXCEPT
             ![o] = [id |-> id, status |-> status, lastPage |-> currentPage, totalPages |-> 0],
             ![o + 1] = [id |-> id, status |-> "", lastPage |-> 0, totalPages |-> len]]
        /\ readComics' = [readComics EXCEPT ![id] = Row(status, currentPage, 0)]
  /\ ppre' = [ppre EXCEPT ![o] = Pre, ![o + 1] = NoPre]
  /\ pcomic' = [pcomic EXCEPT ![o + 1] = getComicStatus(readComics', id)]
  /\ ppc' = [ppc EXCEPT ![o] = "mcsPut", ![o + 1] = "stpGet"]
  /\ UNCHANGED proot
  /\ UNCHANGED <<comics, tpc, top, tdata, troot, tmap, tres, persisted, tsaw>>
  /\ UNCHANGED notpg

\* the rows the progress table holds at the start: none, or file 1 read up
\* to page 2
PgProgresses ==
  { NoProgress, [NoProgress EXCEPT ![1] = Row("in_progress", 2, ImagesOf(1))] }

\* ==== batchFiles (src/lib/getComics.ts lines 61-90) =============================
\* a file link of a listing
FileLink(i) == [name |-> i, url |-> 200 + i]
FileList(n) == [i \in 1..n |-> FileLink(i)]

\* `${n}`: the decimal digits of a number >= 0
DigitChar(d) == <<"0", "1", "2", "3", "4", "5", "6", "7", "8", "9">>[d + 1]
RECURSIVE NumberToString(_)
NumberToString(n) == IF n < 10 THEN <<DigitChar(n)>> ELSE NumberToString(n \div 10) \o <<DigitChar(n % 10)>>

\* lines 74 and 83: `${startIndex}-${endIndex}`
FormatRange(startIndex, endIndex) == NumberToString(startIndex) \o <<"-">> \o NumberToString(endIndex)

\* range.split('-')[0]: the characters before the first '-'
RECURSIVE SplitFirst(_)
SplitFirst(str) ==
  IF str = <<>> \/ Head(str) = "-" THEN <<>> ELSE <<Head(str)>> \o SplitFirst(Tail(str))

\* parseInt: the value of the leading decimal digits (-1 stands for NaN)
IsDigit(ch) == \E d \in 0..9 : DigitChar(d) = ch
DigitValue(ch) == CHOOSE d \in 0..9 : DigitChar(d) = ch
RECURSIVE ParseDigits(_, _)
ParseDigits(str, acc) ==
  IF str = <<>> \/ ~IsDigit(Head(str)) THEN acc
  ELSE ParseDigits(Tail(str), 10 * acc + DigitValue(Head(str)))
parseInt(str) == IF str = <<>> \/ ~IsDigit(Head(str)) THEN -1 ELSE ParseDigits(str, 0)

Min(a, b) == IF a <= b THEN a ELSE b

\* Array.prototype.slice(start, end) with zero-based start and exclusive end,
\* written with 1-based inclusive bounds
Slice_Inclusive(files, start, end) == SubSeq(files, start + 1, Min(end + 1, Len(files)))

\* Array.prototype.slice(start, end): zero-based start, exclusive end
Slice(files, start, end) == SubSeq(files, start + 1, Min(end, Len(files)))

\* line 68 with the folding switched off
FoldsRemainder_Never(remainingFiles, batches) == FALSE

\* line 68: remainingFiles <= 2 && batches.length > 0
FoldsRemainder(remainingFiles, batches) == remainingFiles <= 2 /\ Len(batches) > 0

\* lines 64-87: the loop from index i on
RECURSIVE BatchLoop(_, _, _, _)
BatchLoop(files, batchSize, i, batches) ==
  IF ~(i < Len(files)) THEN batches
  ELSE LET remainingFiles == Len(files) - i IN
    IF FoldsRemainder(remainingFiles, batches)
    THEN LET prevBatch == batches[Len(batches)]
             startIndex == parseInt(SplitFirst(prevBatch.range))
             endIndex == Len(files) - 1
         IN BatchLoop(files, batchSize, i + batchSize,
                      [batches EXCEPT ![Len(batches)] =
                         [range |-> FormatRange(startIndex, endIndex),
                          files |-> Slice(files, startIndex, Len(files))]])
    ELSE LET startIndex == i
             endIndex == Min(i + batchSize - 1, Len(files) - 1)
         IN BatchLoop(files, batchSize, i + batchSize,
                      Append(batches, [range |-> FormatRange(startIndex, endIndex),
                                       files |-> Slice(files, i, i + batchSize)]))

batchFiles(files, batchSize) == BatchLoop(files, batchSize, 0, <<>>)

\* ---- initial state and the call -------------------------------------------------
BfInitWith(lengths, sizes) ==
  /\ bfFiles \in {FileList(n) : n \in lengths}
  /\ bfSize \in sizes
  /\ bfOut = <<>>
  /\ bfDone = FALSE
BfIdle == BfInitWith({0}, {1})
BfInit == BfInitWith(0..MaxFiles, 1..MaxBatchSize)

BatchFilesCall ==
  /\ ~bfDone
  /\ bfOut' = batchFiles(bfFiles, bfSize)
  /\ bfDone' = TRUE
  /\ UNCHANGED <<bfFiles, bfSize>>
  /\ UNCHANGED notbf

\* ==== listFiles (src/lib/getComics.ts lines 96-136) ==============================
\* A directory listing is the sequence of its anchors: the name (the href,
\* percent-decoded; the server escapes every href it writes) and the
\* extension the href ends with.
Anchor(name, ext) == [name |-> name, ext |-> ext]
Htmls == {"empty", "noAllowed", "mixed", "long"}
HtmlOf(tag) ==
  CASE tag = "empty" -> <<>>
    [] tag = "noAllowed" -> << Anchor(<<2>>, "txt") >>
    [] tag = "mixed" -> << Anchor(<<3>>, "jpg"), Anchor(<<1>>, "CBZ"), Anchor(<<2>>, "txt") >>
    [] tag = "long" -> [k \in 1..LongListing |-> Anchor(<<LongListing + 1 - k>>, "png")]

\* line 42: the extensions of the pattern, matched without regard to case
LowerCase(ext) == IF ext = "CBZ" THEN "cbz" ELSE ext
AllowedExt(ext) == LowerCase(ext) \in {"jpg", "jpeg", "png", "gif", "webp", "cbz", "cbr", "zip"}

\* lines 39-56: the file links of a listing, in the order of the listing
RECURSIVE extractFileLinks(_, _)
extractFileLinks(html, baseUrl) ==
  IF html = <<>> THEN <<>>
  ELSE LET a == Head(html)
           rest == extractFileLinks(Tail(html), baseUrl)
       IN IF AllowedExt(a.ext)
          THEN << [name |-> a.name, url |-> <<baseUrl, a.name, a.ext>>] >> \o rest
          ELSE rest

\* lines 19-34: the folder links of the main listing
extractFolderLinks(n) == [k \in 1..n |-> [name |-> k, url |-> <<"folder", k>>]]

NotListed == <<"not listed">>
NoResult == [g \in {} |-> <<>>]

LfInit ==
  /\ lfpc = "idle"
  /\ lfFolders = NotListed
  /\ lfIdx = 0
  /\ lfResult = NoResult
  /\ lfSeen = [f \in 1..NumFolders |-> "none"]

\* the for loop of line 109 moves to the next folder, or line 135 returns
NextFolder ==
  IF lfIdx < Len(lfFolders)
  THEN lfIdx' = lfIdx + 1 /\ lfpc' = "folderFetch"
  ELSE lfIdx' = lfIdx /\ lfpc' = "done"

\* lines 96-100: the call, up to the fetch of the main directory
listFiles ==
  /\ lfpc = "idle"
  /\ lfpc' = "baseFetch"
  /\ UNCHANGED <<lfFolders, lfIdx, lfResult, lfSeen>>
  /\ UNCHANGED notlf

\* line 100 resolves, line 101 asks for the text
BaseResponse ==
  /\ lfpc = "baseFetch"
  /\ lfpc' = "baseText"
  /\ UNCHANGED <<lfFolders, lfIdx, lfResult, lfSeen>>
  /\ UNCHANGED notlf

\* line 100 or 101 rejects: outside every try block, the call rejects
BaseError ==
  /\ lfpc \in {"baseFetch", "baseText"}
  /\ lfpc' = "rejected"
  /\ UNCHANGED <<lfFolders, lfIdx, lfResult, lfSeen>>
  /\ UNCHANGED notlf

\* lines 101-112: the main listing with n folder links arrives; the first
\* folder is fetched, or the empty result returned
BaseText(n) ==
  /\ lfpc = "baseText"
  /\ lfFolders' = extractFolderLinks(n)
  /\ IF n = 0 THEN lfpc' = "done" /\ lfIdx' = 0
              ELSE lfpc' = "folderFetch" /\ lfIdx' = 1
  /\ UNCHANGED <<lfResult, lfSeen>>
  /\ UNCHANGED notlf

\* line 112 resolves, line 113 asks for the text
FolderResponse ==
  /\ lfpc = "folderFetch"
  /\ lfpc' = "folderText"
  /\ UNCHANGED <<lfFolders, lfIdx, lfResult, lfSeen>>
  /\ UNCHANGED notlf

\* lines 113-129: the listing of the folder arrives
FolderText(tag) ==
  /\ lfpc = "folderText"
  /\ LET folder == lfFolders[lfIdx]
         files == SortByName(extractFileLinks(HtmlOf(tag), folder.url))
         batches == batchFiles(files, DefaultBatchSize)
     IN lfResult' = IF Len(batches) > 0
                    THEN [g \in DOMAIN lfResult \cup {folder.name} |->
                            IF g = folder.name THEN batches ELSE lfResult[g]]
                    ELSE lfResult
  /\ lfSeen' = [lfSeen EXCEPT ![lfIdx] = tag]
  /\ NextFolder
  /\ UNCHANGED lfFolders
  /\ UNCHANGED notlf

\* the catch block with the error thrown on
FolderError_Rethrow ==
  /\ lfpc \in {"folderFetch", "folderText"}
  /\ lfSeen' = [lfSeen EXCEPT ![lfIdx] = "failed"]
  /\ lfpc' = "rejected"
  /\ UNCHANGED <<lfFolders, lfIdx, lfResult>>
  /\ UNCHANGED notlf

\* lines 130-132: line 112 or 113 rejects, the catch block logs the error
FolderError ==
  /\ lfpc \in {"folderFetch", "folderText"}
  /\ lfSeen' = [lfSeen EXCEPT ![lfIdx] = "failed"]
  /\ NextFolder
  /\ UNCHANGED <<lfFolders, lfResult>>
  /\ UNCHANGED notlf

\* ==== FileStorage (src/unnamed/part_000) =========================================
\* Keys of the object stores are strings: 'root', and newId.toString().
RootId == <<"r", "o", "o", "t">>
IdString(n) == NumberToString(n)

NotInitialized == "Database not initialized"
FileNotFound == "File not found"
FolderNotFound == "Folder not found"
FetchFailed == "Failed to fetch"
BadStatus == "Server returned status"
StoreFailed == "Error storing file"

\* an object store: a function from the keys it holds to its rows
EmptyStore == [k \in {} |-> <<>>]
FsPut(store, key, row) == [k \in DOMAIN store \cup {key} |-> IF k = key THEN row ELSE store[k]]
FsDelete(store, key) == [k \in DOMAIN store \ {key} |-> store[k]]

\* lines 138-147: the row storeFile adds; read is not set
FileData(id, file) ==
  [id |-> id, name |-> file.name, folderId |-> file.folderId, type |-> file.type,
   read |-> "undefined"]
\* a File with the folder it goes to
FileObj(name, type, folderId) == [name |-> name, type |-> type, folderId |-> folderId]

Urls == {"https://h/a.zip", "https://h/dir/"}
\* lines 797-816: the last path segment if it holds a '.', a default name otherwise
getFileNameFromUrl(url) == IF url = "https://h/a.zip" THEN "a.zip" ELSE "downloaded_file"
\* the content-type and content-disposition filename of a HEAD response
Headers == {[type |-> "", disposition |-> ""], [type |-> "application/zip", disposition |-> "c.zip"]}
UrlLists == UNION {[1..n -> Urls] : n \in 0..MaxUrls}

\* one entry per finished call of a public operation
Entry(op, dbAtCall, kind, message) ==
  [op |-> op, dbAtCall |-> dbAtCall, kind |-> kind, message |-> message]
Logged(e) == fsLog' = Append(fsLog, e)
MayCall == Len(fsLog) < NumFsOps

NoFile == FileObj("", "", <<>>)

\* stores as onupgradeneeded creates them (lines 58-79), or as an earlier
\* session left them with one archive in the root folder
StoresWith(stored) ==
  /\ fsFolders = FsPut(EmptyStore, RootId, [id |-> RootId, name |-> "Root", parentId |-> <<>>])
  /\ IF stored
     THEN /\ fsFiles = FsPut(EmptyStore, IdString(1),
                             FileData(IdString(1), FileObj("a.zip", "application/zip", RootId)))
          /\ fsMeta = [lastFileId |-> 1, lastFolderId |-> 0]
     ELSE /\ fsFiles = EmptyStore
          /\ fsMeta = [lastFileId |-> 0, lastFolderId |-> 0]

FsInitWith(prefills) ==
  /\ fsDb = FALSE
  /\ fsOpen = "none"
  /\ \E stored \in prefills : StoresWith(stored)
  /\ fsLog = <<>>
  /\ fsXfers = {}
  /\ sfpc = "idle" /\ sfFile = NoFile /\ sfCaller = "none" /\ sfDbAtCall = FALSE /\ sfId = <<>>
  /\ dfpc = "idle" /\ dfUrl = "" /\ dfCaller = "none" /\ dfMsg = "" /\ dfHead = [type |-> "", disposition |-> ""]
  /\ sqpc = "idle" /\ sqUrls = <<>> /\ sqI = 0 /\ sqOk = <<>> /\ sqFailed = <<>> /\ sqTried = <<>> /\ sqHist = <<>> /\ sqDbAtCall = FALSE
FsIdle == FsInitWith({FALSE})
FsInit == FsInitWith({FALSE, TRUE})

sfvars == <<sfpc, sfFile, sfCaller, sfDbAtCall, sfId>>
dfvars == <<dfpc, dfUrl, dfCaller, dfMsg, dfHead>>
sqvars == <<sqpc, sqUrls, sqI, sqOk, sqFailed, sqTried, sqHist, sqDbAtCall>>
stores == <<fsFiles, fsFolders, fsMeta>>

\* ---- init (lines 54-92) --------------------------------------------------------
init ==
  /\ fsOpen # "opening"
  /\ fsOpen' = "opening"
  /\ UNCHANGED <<fsDb, stores, fsLog, fsXfers, sfvars, dfvars, sqvars>>
  /\ UNCHANGED notfs

\* lines 81-85: request.onsuccess
InitSuccess ==
  /\ fsOpen = "opening"
  /\ fsDb' = TRUE
  /\ fsOpen' = "done"
  /\ UNCHANGED <<stores, fsLog, fsXfers, sfvars, dfvars, sqvars>>
  /\ UNCHANGED notfs

\* lines 87-90: request.onerror
InitError ==
  /\ fsOpen = "opening"
  /\ fsOpen' = "failed"
  /\ UNCHANGED <<fsDb, stores, fsLog, fsXfers, sfvars, dfvars, sqvars>>
  /\ UNCHANGED notfs

\* ---- downloadFilesSequentially (lines 1018-1114): the loop ----------------------
\* lines 1047-1062: url i is started: downloadFileFromUrl passes its check of
\* db and sends the HEAD request of line 667
StartUrl(i, xfers) ==
  /\ sqI' = i
  /\ sqTried' = Append(sqTried, i)
  /\ dfpc' = "head"
  /\ dfUrl' = sqUrls[i]
  /\ dfMsg' = ""
  /\ dfHead' = [type |-> "", disposition |-> ""]
  /\ fsXfers' = xfers \cup {[url |-> sqUrls[i], method |-> "HEAD"]}

\* the loop with a failed url ending it
AfterUrl_StopOnFailure(ok, failed, xfers) ==
  /\ sqUrls' = sqUrls
  /\ sqDbAtCall' = sqDbAtCall
  /\ sqHist' = Append(sqHist, IF failed = sqFailed THEN "ok" ELSE "failed")
  /\ sqOk' = ok
  /\ sqFailed' = failed
  /\ IF sqI < Len(sqUrls) /\ failed = sqFailed
     THEN /\ StartUrl(sqI + 1, xfers)
          /\ UNCHANGED <<sqpc, fsLog>>
     ELSE /\ sqpc' = "done"
          /\ dfpc' = "idle"
          /\ fsXfers' = xfers
          /\ Logged(Entry("downloadFilesSequentially", TRUE, "result", ""))
          /\ UNCHANGED <<sqI, sqTried, dfUrl, dfMsg, dfHead>>

\* lines 1094-1113: completedFiles++, then the next url or the return
AfterUrl(ok, failed, xfers) ==
  /\ sqUrls' = sqUrls
  /\ sqDbAtCall' = sqDbAtCall
  /\ sqHist' = Append(sqHist, IF failed = sqFailed THEN "ok" ELSE "failed")
  /\ sqOk' = ok
  /\ sqFailed' = failed
  /\ IF sqI < Len(sqUrls)
     THEN /\ StartUrl(sqI + 1, xfers)
          /\ UNCHANGED <<sqpc, fsLog>>
     ELSE /\ sqpc' = "done"
          /\ dfpc' = "idle"
          /\ fsXfers' = xfers
          /\ Logged(Entry("downloadFilesSequentially", TRUE, "result", ""))
          /\ UNCHANGED <<sqI, sqTried, dfUrl, dfMsg, dfHead>>

\* downloadFileFromUrl returns {file, success, message} to its caller: the
\* component (lines 630-644, 733-737), or lines 1080-1087 of the loop
DownloadReturns(success, file, message, xfers) ==
  /\ dfCaller' = dfCaller
  /\ IF dfCaller = "batch"
     THEN IF success
          THEN AfterUrl(Append(sqOk, file), sqFailed, xfers)
          ELSE AfterUrl(sqOk, Append(sqFailed, [url |-> dfUrl, error |-> message]), xfers)
     ELSE /\ dfpc' = "idle"
          /\ fsXfers' = xfers
          /\ Logged(Entry("downloadFileFromUrl", TRUE, "result", message))
          /\ UNCHANGED <<dfUrl, dfMsg, dfHead, sqvars>>

\* ---- storeFile (lines 124-180) -------------------------------------------------
\* the caller of storeFile gets the stored row, or the rejection
StoreReturns(stored, row, message) ==
  /\ sfpc' = "idle"
  /\ UNCHANGED <<sfFile, sfCaller, sfDbAtCall, sfId>>
  /\ CASE sfCaller = "download" ->
            \* lines 629-644 of storeDownloadedBlob
            IF stored THEN DownloadReturns(TRUE, row, "File downloaded and stored successfully", fsXfers)
                      ELSE DownloadReturns(FALSE, row, StoreFailed, fsXfers)
       [] OTHER ->
            /\ Logged(Entry("storeFile", sfDbAtCall, IF stored THEN "resolved" ELSE "rejected", message))
            /\ UNCHANGED <<fsXfers, dfvars, sqvars>>

\* lines 124-131, 178: the check of db, then the file is read
BeginStore(file, caller) ==
  /\ sfpc' = "reading"
  /\ sfFile' = file
  /\ sfCaller' = caller
  /\ sfDbAtCall' = fsDb
  /\ sfId' = <<>>

storeFile(file) ==
  /\ MayCall
  /\ IF ~fsDb
     THEN /\ Logged(Entry("storeFile", FALSE, "rejected", NotInitialized))
          /\ UNCHANGED sfvars
     ELSE /\ sfpc = "idle"
          /\ BeginStore(file, "user")
          /\ UNCHANGED fsLog
  /\ UNCHANGED <<fsDb, fsOpen, stores, fsXfers, dfvars, sqvars>>
  /\ UNCHANGED notfs

\* lines 133-136: reader.onload asks getNextId for an id (lines 95-104)
SfLoaded ==
  /\ sfpc = "reading"
  /\ sfpc' = "nextId"
  /\ UNCHANGED <<sfFile, sfCaller, sfDbAtCall, sfId>>
  /\ UNCHANGED <<fsDb, fsOpen, stores, fsLog, fsXfers, dfvars, sqvars>>
  /\ UNCHANGED notfs

\* lines 172-175: reader.onerror
SfReadError ==
  /\ sfpc = "reading"
  /\ StoreReturns(FALSE, NoFile, "read error")
  /\ UNCHANGED <<fsDb, fsOpen, stores>>
  /\ UNCHANGED notfs

\* lines 106-114 and 138-156: the id is taken and written back in one
\* transaction, then the row is added; accepted says whether the add succeeds
SfNextId(accepted) ==
  /\ sfpc = "nextId"
  /\ LET newId == fsMeta.lastFileId + 1
     IN /\ fsMeta' = [fsMeta EXCEPT !.lastFileId = newId]
        /\ fsFiles' = IF accepted THEN FsPut(fsFiles, IdString(newId), FileData(IdString(newId), sfFile))
                                  ELSE fsFiles
  /\ sfId' = IdString(fsMeta.lastFileId + 1)
  /\ sfpc' = IF accepted THEN "adding" ELSE "addFailing"
  /\ UNCHANGED <<sfFile, sfCaller, sfDbAtCall>>
  /\ UNCHANGED <<fsDb, fsOpen, fsFolders, fsLog, fsXfers, dfvars, sqvars>>
  /\ UNCHANGED notfs

\* lines 158-161: request.onsuccess of the add
SfAdded ==
  /\ sfpc = "adding"
  /\ StoreReturns(TRUE, FileData(sfId, sfFile), "")
  /\ UNCHANGED <<fsDb, fsOpen, stores>>
  /\ UNCHANGED notfs

\* lines 163-166: request.onerror of the add
SfAddError ==
  /\ sfpc = "addFailing"
  /\ StoreReturns(FALSE, NoFile, "add error")
  /\ UNCHANGED <<fsDb, fsOpen, stores>>
  /\ UNCHANGED notfs

\* ---- downloadFileFromUrl (lines 649-740) ----------------------------------------
Xfer(method) == [url |-> dfUrl, method |-> method]
common == <<fsDb, fsOpen, stores>>

\* lines 649-667: the call of the component
downloadFileFromUrl(url) ==
  /\ MayCall
  /\ IF ~fsDb
     THEN /\ Logged(Entry("downloadFileFromUrl", FALSE, "result", NotInitialized))
          /\ UNCHANGED <<fsXfers, dfvars>>
     ELSE /\ dfpc = "idle" /\ sqpc # "running"
          /\ dfCaller' = "single"
          /\ dfpc' = "head"
          /\ dfUrl' = url
          /\ dfMsg' = ""
          /\ dfHead' = [type |-> "", disposition |-> ""]
          /\ fsXfers' = fsXfers \cup {[url |-> url, method |-> "HEAD"]}
          /\ UNCHANGED fsLog
  /\ UNCHANGED <<common, sfvars, sqvars>>
  /\ UNCHANGED notfs

\* lines 1018-1062: the call; without db every url is reported failed, with
\* db the first url is started, or the empty result returned
downloadFilesSequentially(urls) ==
  /\ MayCall
  /\ sqpc # "running"
  /\ sqUrls' = urls
  /\ sqDbAtCall' = fsDb
  /\ sqHist' = <<>>
  /\ IF ~fsDb
     THEN /\ sqpc' = "done"
          /\ sqI' = 0
          /\ sqOk' = <<>>
          /\ sqFailed' = [i \in 1..Len(urls) |-> [url |-> urls[i], error |-> NotInitialized]]
          /\ sqTried' = <<>>
          /\ Logged(Entry("downloadFilesSequentially", FALSE, "result", NotInitialized))
          /\ UNCHANGED <<fsXfers, dfvars>>
     ELSE /\ dfpc = "idle"
          /\ sqOk' = <<>>
          /\ sqFailed' = <<>>
          /\ dfCaller' = "batch"
          /\ IF urls = <<>>
             THEN /\ sqpc' = "done"
                  /\ sqI' = 0
                  /\ sqTried' = <<>>
                  /\ Logged(Entry("downloadFilesSequentially", TRUE, "result", ""))
                  /\ UNCHANGED <<fsXfers, dfpc, dfUrl, dfMsg, dfHead>>
             ELSE /\ sqpc' = "running"
                  /\ sqI' = 1
                  /\ sqTried' = <<1>>
                  /\ dfpc' = "head"
                  /\ dfUrl' = urls[1]
                  /\ dfMsg' = ""
                  /\ dfHead' = [type |-> "", disposition |-> ""]
                  /\ fsXfers' = fsXfers \cup {[url |-> urls[1], method |-> "HEAD"]}
                  /\ UNCHANGED fsLog
  /\ UNCHANGED <<common, sfvars>>
  /\ UNCHANGED notfs

\* lines 721-729: the catch block keeps the error and starts simpleDownload
\* (lines 743-786)
Fallback(done, message) ==
  /\ dfpc' = "xhr"
  /\ dfMsg' = message
  /\ fsXfers' = (fsXfers \ {done}) \cup {Xfer("XHR")}
  /\ UNCHANGED <<dfUrl, dfCaller, dfHead, fsLog, sfvars, sqvars>>

\* lines 667-681: the HEAD response arrives, the GET request is sent
HeadResponse(headers) ==
  /\ dfpc = "head"
  /\ dfpc' = "get"
  /\ dfHead' = headers
  /\ fsXfers' = (fsXfers \ {Xfer("HEAD")}) \cup {Xfer("GET")}
  /\ UNCHANGED <<dfUrl, dfCaller, dfMsg, fsLog, sfvars, sqvars>>
  /\ UNCHANGED common
  /\ UNCHANGED notfs

\* line 667 rejects
HeadError ==
  /\ dfpc = "head"
  /\ Fallback(Xfer("HEAD"), FetchFailed)
  /\ UNCHANGED common
  /\ UNCHANGED notfs

\* lines 681-693: the GET response arrives: not ok (line 683 throws), ok
\* without a body (simpleDownload inside the try block), or ok with a body
\* that is then read
GetResponse(kind) ==
  /\ dfpc = "get"
  /\ CASE kind = "notOk" -> Fallback(Xfer("GET"), BadStatus)
       [] kind = "noBody" ->
            /\ dfpc' = "xhrTry"
            /\ fsXfers' = (fsXfers \ {Xfer("GET")}) \cup {Xfer("XHR")}
            /\ UNCHANGED <<dfUrl, dfCaller, dfMsg, dfHead, fsLog, sfvars, sqvars>>
       [] kind = "stream" ->
            /\ dfpc' = "read"
            /\ UNCHANGED <<dfUrl, dfCaller, dfMsg, dfHead, fsXfers, fsLog, sfvars, sqvars>>
  /\ UNCHANGED common
  /\ UNCHANGED notfs

\* line 681 rejects
GetError ==
  /\ dfpc = "get"
  /\ Fallback(Xfer("GET"), FetchFailed)
  /\ UNCHANGED common
  /\ UNCHANGED notfs

\* the name and type of the file of lines 625-628
Downloaded(name, type) == FileObj(name, type, RootId)
HeadName == IF dfHead.disposition # "" THEN dfHead.disposition ELSE getFileNameFromUrl(dfUrl)

\* storeDownloadedBlob (lines 616-629) calls storeFile, which reads the file
ToStore(done, file) ==
  /\ dfpc' = "store"
  /\ fsXfers' = fsXfers \ {done}
  /\ sfpc = "idle"
  /\ BeginStore(file, "download")
  /\ UNCHANGED <<dfUrl, dfCaller, dfMsg, dfHead, fsLog, sqvars>>

\* lines 698-720: the last chunk has been read
ReadDone ==
  /\ dfpc = "read"
  /\ ToStore(Xfer("GET"), Downloaded(HeadName, dfHead.type))
  /\ UNCHANGED common
  /\ UNCHANGED notfs

\* line 699 rejects
ReadError ==
  /\ dfpc = "read"
  /\ Fallback(Xfer("GET"), FetchFailed)
  /\ UNCHANGED common
  /\ UNCHANGED notfs

\* lines 689-690: xhr.onload with status 200 inside the try block
XhrTryLoad ==
  /\ dfpc = "xhrTry"
  /\ ToStore(Xfer("XHR"), Downloaded(HeadName, dfHead.type))
  /\ UNCHANGED common
  /\ UNCHANGED notfs

\* line 689 rejects (lines 776-782): the catch block tries simpleDownload again
XhrTryError ==
  /\ dfpc = "xhrTry"
  /\ Fallback(Xfer("XHR"), BadStatus)
  /\ UNCHANGED common
  /\ UNCHANGED notfs

\* lines 729-730: xhr.onload with status 200 in the catch block
XhrLoad ==
  /\ dfpc = "xhr"
  /\ ToStore(Xfer("XHR"), Downloaded(getFileNameFromUrl(dfUrl), ""))
  /\ UNCHANGED common
  /\ UNCHANGED notfs

\* lines 731-737: simpleDownload rejects in the catch block; the result
\* carries the message of the first error
XhrError ==
  /\ dfpc = "xhr"
  /\ DownloadReturns(FALSE, NoFile, dfMsg, fsXfers \ {Xfer("XHR")})
  /\ UNCHANGED sfvars
  /\ UNCHANGED common
  /\ UNCHANGED notfs

\* ---- the other public operations of FileStorage --------------------------------
FsIds == {IdString(1), IdString(2)}
FolderIds == {RootId, IdString(1)}
TransactionInactive == "TransactionInactiveError"
Circular == "Cannot move a folder into its own subfolder"

\* a call that ends in the step that makes it
Call(op, kind, message) ==
  /\ MayCall
  /\ Logged(Entry(op, fsDb, kind, message))
  /\ UNCHANGED <<fsDb, fsOpen, fsXfers, sfvars, dfvars, sqvars>>
  /\ UNCHANGED notfs

\* lines 183-205
getFilesInFolder(folderId) ==
  /\ IF ~fsDb THEN Call("getFilesInFolder", "rejected", NotInitialized)
              ELSE Call("getFilesInFolder", "resolved", "")
  /\ UNCHANGED stores

\* lines 208-228
getAllFiles ==
  /\ IF ~fsDb THEN Call("getAllFiles", "rejected", NotInitialized)
              ELSE Call("getAllFiles", "resolved", "")
  /\ UNCHANGED stores

\* lines 231-256
getFile(fileId) ==
  /\ IF ~fsDb THEN Call("getFile", "rejected", NotInitialized)
     ELSE IF fileId \in DOMAIN fsFiles THEN Call("getFile", "resolved", "")
     ELSE Call("getFile", "rejected", FileNotFound)
  /\ UNCHANGED stores

\* lines 259-294: get and put in one transaction
moveFile(fileId, newFolderId) ==
  /\ IF ~fsDb THEN Call("moveFile", "rejected", NotInitialized) /\ UNCHANGED fsFiles
     ELSE IF fileId \in DOMAIN fsFiles
     THEN /\ Call("moveFile", "resolved", "")
          /\ fsFiles' = [fsFiles EXCEPT ![fileId].folderId = newFolderId]
     ELSE Call("moveFile", "rejected", FileNotFound) /\ UNCHANGED fsFiles
  /\ UNCHANGED <<fsFolders, fsMeta>>

\* lines 297-318
deleteFile(fileId) ==
  /\ IF ~fsDb THEN Call("deleteFile", "rejected", NotInitialized) /\ UNCHANGED fsFiles
     ELSE Call("deleteFile", "resolved", "") /\ fsFiles' = FsDelete(fsFiles, fileId)
  /\ UNCHANGED <<fsFolders, fsMeta>>

\* the value of fileData.read as a string, and its negation
Flag(b) == IF b THEN "true" ELSE "false"
Negated(read) == IF read = "true" THEN "false" ELSE "true"

\* lines 848-883
markFileAsRead(fileId, isRead) ==
  /\ IF ~fsDb THEN Call("markFileAsRead", "rejected", NotInitialized) /\ UNCHANGED fsFiles
     ELSE IF fileId \in DOMAIN fsFiles
     THEN /\ Call("markFileAsRead", "resolved", "")
          /\ fsFiles' = [fsFiles EXCEPT ![fileId].read = Flag(isRead)]
     ELSE Call("markFileAsRead", "rejected", FileNotFound) /\ UNCHANGED fsFiles
  /\ UNCHANGED <<fsFolders, fsMeta>>

\* lines 886-921
toggleFileReadStatus(fileId) ==
  /\ IF ~fsDb THEN Call("toggleFileReadStatus", "rejected", NotInitialized) /\ UNCHANGED fsFiles
     ELSE IF fileId \in DOMAIN fsFiles
     THEN /\ Call("toggleFileReadStatus", "resolved", "")
          /\ fsFiles' = [fsFiles EXCEPT ![fileId].read = Negated(fsFiles[fileId].read)]
     ELSE Call("toggleFileReadStatus", "rejected", FileNotFound) /\ UNCHANGED fsFiles
  /\ UNCHANGED <<fsFolders, fsMeta>>

\* lines 924-962: one transaction over all ids, ids not found are skipped
markMultipleFilesAsRead(fileIds, isRead) ==
  /\ IF ~fsDb THEN Call("markMultipleFilesAsRead", "rejected", NotInitialized) /\ UNCHANGED fsFiles
     ELSE /\ Call("markMultipleFilesAsRead", "resolved", "")
          /\ fsFiles' = [k \in DOMAIN fsFiles |->
                           IF k \in fileIds THEN [fsFiles[k] EXCEPT !.read = Flag(isRead)]
                                            ELSE fsFiles[k]]
  /\ UNCHANGED <<fsFolders, fsMeta>>

\* lines 323-356: getNextId('lastFolderId'), then the add
createFolder(name, parentId) ==
  /\ IF ~fsDb THEN Call("createFolder", "rejected", NotInitialized) /\ UNCHANGED <<fsFolders, fsMeta>>
     ELSE LET folderId == IdString(fsMeta.lastFolderId + 1)
          IN /\ Call("createFolder", "resolved", "")
             /\ fsMeta' = [fsMeta EXCEPT !.lastFolderId = fsMeta.lastFolderId + 1]
             /\ fsFolders' = FsPut(fsFolders, folderId,
                                   [id |-> folderId, name |-> name, parentId |-> parentId])
  /\ UNCHANGED fsFiles

\* lines 359-379
getAllFolders ==
  /\ IF ~fsDb THEN Call("getAllFolders", "rejected", NotInitialized)
              ELSE Call("getAllFolders", "resolved", "")
  /\ UNCHANGED stores

\* lines 382-391: by way of getAllFolders
getSubFolders(parentId) ==
  /\ IF ~fsDb THEN Call("getSubFolders", "rejected", NotInitialized)
              ELSE Call("getSubFolders", "resolved", "")
  /\ UNCHANGED stores

\* lines 394-419
getFolder(folderId) ==
  /\ IF ~fsDb THEN Call("getFolder", "rejected", NotInitialized)
     ELSE IF folderId \in DOMAIN fsFolders THEN Call("getFolder", "resolved", "")
     ELSE Call("getFolder", "rejected", FolderNotFound)
  /\ UNCHANGED stores

\* the folder and its own subfolders, the folders below those left out
getAllSubFolderIds_ChildrenOnly(parentId) ==
  {parentId} \cup {j \in DOMAIN fsFolders : fsFolders[j].parentId = parentId}

\* lines 430-440: the folder and the folders below it
RECURSIVE getAllSubFolderIds(_)
getAllSubFolderIds(parentId) ==
  {parentId} \cup UNION {getAllSubFolderIds(k) :
                           k \in {j \in DOMAIN fsFolders : fsFolders[j].parentId = parentId}}

\* lines 422-470: the folders are deleted in their transaction; the
\* transaction of the files (line 453) has no request when control returns to
\* the event loop and is finished by the time getAllFiles resolves, so a
\* delete of line 461 throws and the call rejects with the files kept
deleteFolder(folderId) ==
  /\ IF ~fsDb THEN Call("deleteFolder", "rejected", NotInitialized) /\ UNCHANGED fsFolders
     ELSE LET folderIds == getAllSubFolderIds(folderId)
              filesToDelete == {k \in DOMAIN fsFiles : fsFiles[k].folderId \in folderIds}
          IN /\ fsFolders' = [k \in DOMAIN fsFolders \ folderIds |-> fsFolders[k]]
             /\ IF filesToDelete = {} THEN Call("deleteFolder", "resolved", "")
                ELSE Call("deleteFolder", "rejected", TransactionInactive)
  /\ UNCHANGED <<fsFiles, fsMeta>>

\* the check of the destination alone, its ancestors left out
checkCircularReference_SelfOnly(targetId, destinationId) ==
  IF targetId = destinationId THEN "circular"
  ELSE IF destinationId \notin DOMAIN fsFolders THEN "missing"
  ELSE "free"

\* lines 484-491: "circular", "missing" (getFolder rejects) or "free"
RECURSIVE checkCircularReference(_, _)
checkCircularReference(targetId, destinationId) ==
  IF targetId = destinationId THEN "circular"
  ELSE IF destinationId \notin DOMAIN fsFolders THEN "missing"
  ELSE IF fsFolders[destinationId].parentId = <<>> THEN "free"
  ELSE checkCircularReference(targetId, fsFolders[destinationId].parentId)

\* lines 473-528: the transaction of line 480 is finished when getFolder has
\* answered, so store.get of line 500 throws and the call rejects
moveFolder(folderId, newParentId) ==
  /\ IF ~fsDb THEN Call("moveFolder", "rejected", NotInitialized)
     ELSE LET check == checkCircularReference(folderId, newParentId)
          IN CASE check = "circular" -> Call("moveFolder", "rejected", Circular)
               [] check = "missing" -> Call("moveFolder", "rejected", FolderNotFound)
               [] check = "free" -> Call("moveFolder", "rejected", TransactionInactive)
  /\ UNCHANGED stores

\* lines 531-540
isZipFile(file) == file.type = "application/zip" \/ file.name \in {"a.zip", "c.zip"}

\* the rows of k extracted entries, with the ids after lastFileId
RECURSIVE AddEntries(_, _, _, _)
AddEntries(files, last, folderId, k) ==
  IF k = 0 THEN files
  ELSE AddEntries(FsPut(files, IdString(last + 1),
                        FileData(IdString(last + 1), FileObj("p.jpg", "image/jpeg", folderId))),
                  last + 1, folderId, k - 1)

\* lines 543-613: without db the call rejects; every later failure gives the
\* result {success: false}; the k entries of the archive are stored with
\* storeFile, taken here in one step and in the order of the archive
extractZipFile(fileId, k) ==
  /\ IF ~fsDb THEN Call("extractZipFile", "rejected", NotInitialized) /\ UNCHANGED <<fsFiles, fsMeta>>
     ELSE IF fileId \notin DOMAIN fsFiles \/ ~isZipFile(fsFiles[fileId])
     THEN Call("extractZipFile", "result", "failed") /\ UNCHANGED <<fsFiles, fsMeta>>
     ELSE /\ Call("extractZipFile", "result", "")
          /\ fsFiles' = AddEntries(fsFiles, fsMeta.lastFileId, fsFiles[fileId].folderId, k)
          /\ fsMeta' = [fsMeta EXCEPT !.lastFileId = fsMeta.lastFileId + k]
  /\ UNCHANGED fsFolders

\* lines 965-987
setLastOpenedComic(fileId) ==
  /\ IF ~fsDb THEN Call("setLastOpenedComic", "rejected", NotInitialized) /\ UNCHANGED fsMeta
     ELSE Call("setLastOpenedComic", "resolved", "") /\ fsMeta' = FsPut(fsMeta, "lastOpenedComic", fileId)
  /\ UNCHANGED <<fsFiles, fsFolders>>

\* lines 990-1015
getLastOpenedComic ==
  /\ IF ~fsDb THEN Call("getLastOpenedComic", "rejected", NotInitialized)
              ELSE Call("getLastOpenedComic", "resolved", "")
  /\ UNCHANGED stores

\* ==== FileStorage, the revision of src/lib/indexdb.ts lines 1274-1451 ============
\* This revision declares db without a value and no operation looks at it
\* before db.transaction: on an undefined db that throws a TypeError inside
\* the promise executor, and the promise rejects with it.
NullReference == "TypeError: Cannot read properties of undefined"

LgInit ==
  /\ lgDb = FALSE
  /\ lgOpen = "none"
  /\ lgFiles = EmptyStore
  /\ lgLast = 0
  /\ lgpc = "idle"
  /\ lgDbAtCall = FALSE

LgCall(op, kind, message) ==
  /\ MayCall
  /\ Logged(Entry(op, lgDb, kind, message))
  /\ UNCHANGED <<lgDb, lgOpen, lgpc, lgDbAtCall>>
  /\ UNCHANGED <<fsDb, fsOpen, stores, fsXfers, sfvars, dfvars, sqvars>>
  /\ UNCHANGED notlg

\* lines 1282-1308
LegacyInit ==
  /\ lgOpen # "opening"
  /\ lgOpen' = "opening"
  /\ UNCHANGED <<lgDb, lgFiles, lgLast, lgpc, lgDbAtCall>>
  /\ UNCHANGED fsvars
  /\ UNCHANGED notlg

\* lines 1297-1301: request.onsuccess
LegacyInitSuccess ==
  /\ lgOpen = "opening"
  /\ lgOpen' = "done"
  /\ lgDb' = TRUE
  /\ UNCHANGED <<lgFiles, lgLast, lgpc, lgDbAtCall>>
  /\ UNCHANGED fsvars
  /\ UNCHANGED notlg

\* lines 1383-1398
LegacyGetAllFiles ==
  /\ IF ~lgDb THEN LgCall("legacy getAllFiles", "rejected", NullReference)
              ELSE LgCall("legacy getAllFiles", "resolved", "")
  /\ UNCHANGED <<lgFiles, lgLast>>

\* lines 1401-1422
LegacyGetFile(fileId) ==
  /\ IF ~lgDb THEN LgCall("legacy getFile", "rejected", NullReference)
     ELSE IF fileId \in DOMAIN lgFiles THEN LgCall("legacy getFile", "resolved", "")
     ELSE LgCall("legacy getFile", "rejected", FileNotFound)
  /\ UNCHANGED <<lgFiles, lgLast>>

\* lines 1425-1441
LegacyDeleteFile(fileId) ==
  /\ IF ~lgDb THEN LgCall("legacy deleteFile", "rejected", NullReference) /\ UNCHANGED lgFiles
     ELSE LgCall("legacy deleteFile", "resolved", "") /\ lgFiles' = FsDelete(lgFiles, fileId)
  /\ UNCHANGED lgLast

\* lines 1335-1337, 1378: storeFile starts to read the file
LegacyStoreFile ==
  /\ MayCall
  /\ lgpc = "idle"
  /\ lgpc' = "reading"
  /\ lgDbAtCall' = lgDb
  /\ UNCHANGED <<lgDb, lgOpen, lgFiles, lgLast>>
  /\ UNCHANGED fsvars
  /\ UNCHANGED notlg

\* lines 1339-1369 with getNextFileId (lines 1311-1332): reader.onload; with
\* db set the id is taken and the row added, without it db.transaction throws
LegacyLoaded ==
  /\ lgpc = "reading"
  /\ lgpc' = "idle"
  /\ IF ~lgDb
     THEN /\ Logged(Entry("legacy storeFile", lgDbAtCall, "rejected", NullReference))
          /\ UNCHANGED <<lgFiles, lgLast>>
     ELSE /\ Logged(Entry("legacy storeFile", lgDbAtCall, "resolved", ""))
          /\ lgLast' = lgLast + 1
          /\ lgFiles' = FsPut(lgFiles, IdString(lgLast + 1), [id |-> IdString(lgLast + 1), name |-> "a.zip"])
  /\ UNCHANGED <<lgDb, lgOpen, lgDbAtCall>>
  /\ UNCHANGED <<fsDb, fsOpen, stores, fsXfers, sfvars, dfvars, sqvars>>
  /\ UNCHANGED notlg

\* ==== the readers: archive extraction and object URLs ===========================
\* Three components extract a comic: the reader of the downloaded comics
\* (src/unnamed/part_005, "dexie"), ComicView (src/app/read/file_views/
\* ComicView.tsx, "view") and the page of a stored file (src/app/read/[id]/
\* page.tsx, "page"). A name is its sequence of UTF-16 code units.
Kinds == {"dexie", "view", "page"}
Injective(q) == \A i, j \in 1..Len(q) : q[i] = q[j] => i = j

ZipEntry(name, dir) == [name |-> name, dir |-> dir]
EntryPool ==
  { ZipEntry(<<49, 46, 106, 112, 103>>, FALSE),                \* "1.jpg"
    ZipEntry(<<49, 48, 46, 74, 80, 71>>, FALSE),               \* "10.JPG"
    ZipEntry(<<50, 46, 112, 110, 103>>, FALSE),                \* "2.png"
    ZipEntry(<<46, 104, 46, 103, 105, 102>>, FALSE),           \* ".h.gif"
    ZipEntry(<<95, 95, 77, 65, 67, 79, 83, 88, 47, 97, 46, 119, 101, 98, 112>>, FALSE),
                                                               \* "__MACOSX/a.webp"
    ZipEntry(<<97, 46, 116, 120, 116>>, FALSE),                \* "a.txt"
    ZipEntry(<<100, 46, 106, 112, 101, 103, 47>>, TRUE),       \* "d.jpeg/"
    ZipEntry(<<106, 112, 103>>, FALSE) }                       \* "jpg"

\* String.prototype.toLowerCase, startsWith, endsWith
toLowerCase(str) == [i \in 1..Len(str) |-> IF str[i] >= 65 /\ str[i] <= 90 THEN str[i] + 32 ELSE str[i]]
startsWith(str, prefix) ==
  Len(prefix) <= Len(str) /\ SubSeq(str, 1, Len(prefix)) = prefix
endsWith(str, suffix) ==
  Len(suffix) <= Len(str) /\ SubSeq(str, Len(str) - Len(suffix) + 1, Len(str)) = suffix

\* "jpg", "jpeg", "png", "gif", "webp"
imageExtensions ==
  { <<106, 112, 103>>, <<106, 112, 101, 103>>, <<112, 110, 103>>, <<103, 105, 102>>,
    <<119, 101, 98, 112>> }
Dot == <<46>>
MacOsx == <<95, 95, 77, 65, 67, 79, 83, 88>>

\* filename.split('.').pop(): the text after the last '.', or the whole name
RECURSIVE LastSegment(_)
LastSegment(str) ==
  IF \A i \in 1..Len(str) : str[i] # 46 THEN str
  ELSE LastSegment(Tail(str))

\* part_005 lines 163-172: not a directory, not hidden, and the lower-cased
\* name ends with '.' and an extension
isImageDexie(e) ==
  /\ ~(e.dir \/ startsWith(e.name, MacOsx) \/ startsWith(e.name, Dot))
  /\ \E ext \in imageExtensions : endsWith(toLowerCase(e.name), Dot \o ext)

\* ComicView.tsx lines 95-98: /\.(jpe?g|png|gif|webp)$/i
isImageView(e) ==
  /\ ~e.dir
  /\ \E ext \in imageExtensions : endsWith(toLowerCase(e.name), Dot \o ext)

\* page.tsx lines 64-72
isImagePage(e) ==
  /\ ~e.dir
  /\ toLowerCase(LastSegment(e.name)) \in imageExtensions

isImage(kind, e) ==
  CASE kind = "dexie" -> isImageDexie(e)
    [] kind = "view" -> isImageView(e)
    [] kind = "page" -> isImagePage(e)

\* the default order of Array.prototype.sort: by code units
RECURSIVE compareCodeUnits(_, _)
compareCodeUnits(a, b) ==
  IF a = <<>> /\ b = <<>> THEN 0
  ELSE IF a = <<>> THEN -1
  ELSE IF b = <<>> THEN 1
  ELSE IF Head(a) < Head(b) THEN -1
  ELSE IF Head(a) > Head(b) THEN 1
  ELSE compareCodeUnits(Tail(a), Tail(b))

\* the order of localeCompare without options on the characters of the pool:
\* '_' before '.' before '/', then digits, then letters without regard to
\* case (no two names of the pool differ in case only)
CollationWeight(c) ==
  IF c = 95 THEN 1
  ELSE IF c = 46 THEN 2
  ELSE IF c = 47 THEN 3
  ELSE IF c >= 65 /\ c <= 90 THEN c + 32
  ELSE c
CollationKey(str) == [i \in 1..Len(str) |-> CollationWeight(str[i])]

\* the comparison each reader sorts with: part_005 line 158 and ComicView
\* line 98 use sort(), page.tsx line 85 uses localeCompare
compareNames(kind, a, b) ==
  IF kind = "page" THEN localeCompare(CollationKey(a), CollationKey(b))
  ELSE compareCodeUnits(a, b)

\* Array.prototype.sort on names or on {name, url} records (stable)
RECURSIVE InsertPage(_, _, _)
InsertPage(kind, item, sorted) ==
  IF sorted = <<>> THEN <<item>>
  ELSE IF compareNames(kind, Head(sorted).name, item.name) <= 0
  THEN <<Head(sorted)>> \o InsertPage(kind, item, Tail(sorted))
  ELSE <<item>> \o sorted

SortPages_None(kind, items) == items

RECURSIVE SortPages(_, _)
SortPages(kind, items) ==
  IF items = <<>> THEN <<>>
  ELSE InsertPage(kind, items[Len(items)], SortPages(kind, SubSeq(items, 1, Len(items) - 1)))

\* Array.prototype.filter
RECURSIVE FilterImages(_, _)
FilterImages(kind, entries) ==
  IF entries = <<>> THEN <<>>
  ELSE IF isImage(kind, Head(entries))
  THEN <<Head(entries)>> \o FilterImages(kind, Tail(entries))
  ELSE FilterImages(kind, Tail(entries))

\* the entries whose decode is awaited, in the order the reader takes them:
\* part_005 sorts the keys and then skips, ComicView filters and then sorts,
\* page.tsx maps over the keys in the order of the archive
Awaited(kind, archive) ==
  CASE kind = "dexie" -> FilterImages(kind, SortPages(kind, archive))
    [] kind = "view" -> SortPages(kind, FilterImages(kind, archive))
    [] kind = "page" -> FilterImages(kind, archive)

\* ---- the component: state, effects and the extraction it starts ---------------
\* createObjectURL gives a new URL for every blob: the URL of an entry of the
\* k-th comic opened
ObjectUrl(k, name) == [open |-> k, name |-> name]
PageOf(k, e) == [name |-> e.name, url |-> ObjectUrl(k, e.name)]
UrlsOf(pages) == {pages[i].url : i \in 1..Len(pages)}
Opens == 1..NumOpens

NoTask == [pc |-> "idle", archive |-> <<>>, todo |-> <<>>, files |-> <<>>, failed |-> {}, alive |-> FALSE]
ErrorOf(kind) ==
  CASE kind = "dexie" -> "Failed to process comic file"
    [] kind = "view" -> "Failed to extract comic images"
    [] kind = "page" -> "Failed to extract files from archive"
NoImages == "No image files found in the comic archive"

RdInitWith(kinds) ==
  /\ rdKind \in kinds
  /\ rdMounted = FALSE
  /\ rdOpen = 0
  /\ rdImages = <<>>
  /\ rdCleanup = <<>>
  /\ rdLive = {}
  /\ rdLoading = TRUE
  /\ rdError = ""
  /\ rdTask = [k \in Opens |-> NoTask]
RdIdle == RdInitWith({"dexie"})
RdInit == RdInitWith(Kinds)

\* part_005 line 153, ComicView line 90, page.tsx line 59: loadAsync is called
Started(archive) == [NoTask EXCEPT !.pc = "load", !.archive = archive, !.alive = TRUE]

\* the component is mounted with a comic: the state is the initial state
\* (part_005 lines 21-30, ComicView lines 15-17, page.tsx lines 20-25), the
\* effect runs and returns its cleanup, which holds the images of this render
Mount(archive) ==
  /\ ~rdMounted
  /\ rdOpen < NumOpens
  /\ rdMounted' = TRUE
  /\ rdOpen' = rdOpen + 1
  /\ rdImages' = <<>>
  /\ rdCleanup' = <<>>
  /\ rdLoading' = TRUE
  /\ rdError' = ""
  /\ rdTask' = [rdTask EXCEPT ![rdOpen + 1] = Started(archive)]
  /\ UNCHANGED <<rdKind, rdLive>>
  /\ UNCHANGED notrd

\* the id (part_005 line 236), the file (ComicView line 122) or the params
\* (page.tsx line 115) change: the cleanup of the last run of the effect is
\* called and the effect runs again, its new cleanup holding the images of
\* this render; the effect of page.tsx has no cleanup (the cleanup of lines
\* 131-137 depends on archiveImages); ComicView sets loading (line 88)
ChangeId(archive) ==
  /\ rdMounted
  /\ rdOpen < NumOpens
  /\ rdOpen' = rdOpen + 1
  /\ IF rdKind = "page"
     THEN UNCHANGED <<rdLive, rdCleanup>>
     ELSE /\ rdLive' = rdLive \ UrlsOf(rdCleanup)
          /\ rdCleanup' = rdImages
  /\ rdLoading' = IF rdKind = "view" THEN TRUE ELSE rdLoading
  /\ rdTask' = [rdTask EXCEPT ![rdOpen + 1] = Started(archive)]
  /\ UNCHANGED <<rdKind, rdMounted, rdImages, rdError>>
  /\ UNCHANGED notrd

\* the component is unmounted: the cleanup is called (part_005 lines 232-235,
\* ComicView lines 119-121, page.tsx lines 132-136); an extraction in
\* progress goes on, its state updates have no effect any more
Unmount ==
  /\ rdMounted
  /\ rdMounted' = FALSE
  /\ rdLive' = rdLive \ UrlsOf(rdCleanup)
  /\ rdCleanup' = <<>>
  /\ rdTask' = [k \in Opens |-> [rdTask[k] EXCEPT !.alive = FALSE]]
  /\ UNCHANGED <<rdKind, rdOpen, rdImages, rdLoading, rdError>>
  /\ UNCHANGED notrd

Caught_KeepsLoading(k, task, next, live) ==
  /\ rdTask' = [rdTask EXCEPT ![k] = [task EXCEPT !.pc = next]]
  /\ rdLive' = live
  /\ IF task.alive
     THEN rdError' = ErrorOf(rdKind) /\ UNCHANGED rdLoading
     ELSE UNCHANGED <<rdError, rdLoading>>
  /\ UNCHANGED <<rdKind, rdMounted, rdOpen, rdImages, rdCleanup>>

\* the catch block: part_005 lines 206-211, ComicView lines 109-113,
\* page.tsx lines 89-93
Caught(k, task, next, live) ==
  /\ rdTask' = [rdTask EXCEPT ![k] = [task EXCEPT !.pc = next]]
  /\ rdLive' = live
  /\ IF task.alive
     THEN rdError' = ErrorOf(rdKind) /\ rdLoading' = FALSE
     ELSE UNCHANGED <<rdError, rdLoading>>
  /\ UNCHANGED <<rdKind, rdMounted, rdOpen, rdImages, rdCleanup>>

\* every entry is decoded: part_005 lines 198-211 (no image is an error),
\* ComicView lines 107-108, page.tsx lines 85-88 (the sort, and the cleanup
\* of lines 131-137, which runs when archiveImages changes)
Finished(k, task, live) ==
  LET files == IF rdKind = "page" THEN SortPages(rdKind, task.files) ELSE task.files
  IN /\ rdTask' = [rdTask EXCEPT ![k] = [task EXCEPT !.pc = "done", !.files = files]]
     /\ IF ~task.alive
        THEN rdLive' = live /\ UNCHANGED <<rdImages, rdCleanup, rdLoading, rdError>>
        ELSE /\ rdLoading' = FALSE
             /\ CASE rdKind = "dexie" ->
                       /\ rdImages' = IF files = <<>> THEN rdImages ELSE files
                       /\ rdError' = IF files = <<>> THEN NoImages ELSE rdError
                       /\ rdLive' = live
                       /\ UNCHANGED rdCleanup
                  [] rdKind = "view" ->
                       /\ rdImages' = files
                       /\ rdLive' = live
                       /\ UNCHANGED <<rdError, rdCleanup>>
                  [] rdKind = "page" ->
                       /\ rdImages' = files
                       /\ rdLive' = live \ UrlsOf(rdCleanup)
                       /\ rdCleanup' = files
                       /\ UNCHANGED rdError
     /\ UNCHANGED <<rdKind, rdMounted, rdOpen>>

\* loadAsync resolves or rejects (part_005 line 153, ComicView line 90,
\* page.tsx line 59); the entries to decode are found without an await
LoadAsync(k, ok) ==
  /\ rdTask[k].pc = "load"
  /\ IF ~ok THEN Caught(k, rdTask[k], "failed", rdLive)
     ELSE LET todo == Awaited(rdKind, rdTask[k].archive)
          IN IF todo = <<>> THEN Finished(k, rdTask[k], rdLive)
             ELSE /\ rdTask' = [rdTask EXCEPT ![k].pc = "decode", ![k].todo = todo]
                  /\ UNCHANGED <<rdKind, rdMounted, rdOpen, rdImages, rdCleanup, rdLive,
                                 rdLoading, rdError>>
  /\ UNCHANGED notrd

Without(q, i) == SubSeq(q, 1, i - 1) \o SubSeq(q, i + 1, Len(q))

\* async('blob') of an entry resolves or rejects: part_005 lines 175-183 (a
\* rejection is logged and the entry left out), ComicView lines 102-104 (a
\* rejection ends the extraction), page.tsx lines 73-78 (the entries are
\* decoded concurrently; the first rejection rejects Promise.all of line 82,
\* the other entries are still decoded)
Decode(k, i, ok) ==
  LET t == rdTask[k]
      rest == Without(t.todo, i)
      made == [t EXCEPT !.todo = rest, !.files = Append(t.files, PageOf(k, t.todo[i]))]
      skipped == [t EXCEPT !.todo = rest, !.failed = t.failed \cup {t.todo[i].name}]
      same == <<rdKind, rdMounted, rdOpen, rdImages, rdCleanup, rdLoading, rdError>>
  IN /\ t.pc \in {"decode", "rejected"}
     /\ i \in 1..Len(t.todo)
     /\ rdKind # "page" => i = 1
     /\ IF ok
        THEN LET live == rdLive \cup {ObjectUrl(k, t.todo[i].name)}
             IN IF rest # <<>>
                THEN rdTask' = [rdTask EXCEPT ![k] = made] /\ rdLive' = live /\ UNCHANGED same
                ELSE IF t.pc = "decode" THEN Finished(k, made, live)
                ELSE /\ rdTask' = [rdTask EXCEPT ![k] = [made EXCEPT !.pc = "failed"]]
                     /\ rdLive' = live
                     /\ UNCHANGED same
        ELSE CASE rdKind = "dexie" ->
                    IF rest # <<>>
                    THEN rdTask' = [rdTask EXCEPT ![k] = skipped] /\ UNCHANGED rdLive /\ UNCHANGED same
                    ELSE Finished(k, skipped, rdLive)
               [] rdKind = "view" ->
                    Caught(k, [skipped EXCEPT !.todo = <<>>], "failed", rdLive)
               [] rdKind = "page" ->
                    IF t.pc = "decode"
                    THEN Caught(k, skipped, IF rest # <<>> THEN "rejected" ELSE "failed", rdLive)
                    ELSE /\ rdTask' = [rdTask EXCEPT ![k] =
                                         [skipped EXCEPT !.pc = IF rest # <<>> THEN "rejected" ELSE "failed"]]
                         /\ UNCHANGED rdLive
                         /\ UNCHANGED same
  /\ UNCHANGED notrd

\* part_005 lines 205 and 239-289: after the loop, with or without images,
\* the reader starts the preload of the next comic
preloadNextComic(k, c, id) ==
  /\ rdKind = "dexie"
  /\ rdTask[k].pc = "done"
  /\ k = rdOpen
  /\ preloadComic(c, id)

\* ==== last read comic, last folder (src/lib/dexieDB.ts lines 146-176) ===========
LastTables == {"lastReadComic", "lastFolder"}
SetCalls == 1..NumSetCalls
LastIds == {1, 2}
\* getLastReadComic and getLastFolder return undefined for an empty table
NoLast == 0
IdleCall == [pc |-> "idle", table |-> "lastFolder", id |-> 1]

LpInit ==
  /\ lastRows = [t \in LastTables |-> {}]
  /\ lpNow = 0
  /\ lpCall = [s \in SetCalls |-> IdleCall]
  /\ lpLast = [t \in LastTables |-> NoLast]

\* lines 147-149 and 163-165: the call issues clear() and awaits it; the
\* callers do not await the call (part_001 lines 227-273), so calls overlap
setLast(s, t, id) ==
  /\ lpCall[s].pc = "idle"
  /\ lpCall' = [lpCall EXCEPT ![s] = [pc |-> "clear", table |-> t, id |-> id]]
  /\ lastRows' = [lastRows EXCEPT ![t] = {}]
  /\ UNCHANGED <<lpNow, lpLast>>
  /\ UNCHANGED notlp

\* lines 150 and 166: put({id, timestamp: Date.now()}) replaces the row of
\* the key id; the call completes
SetPut(s) ==
  LET c == lpCall[s]
  IN /\ c.pc = "clear"
     /\ lastRows' = [lastRows EXCEPT ![c.table] =
                       {r \in @ : r.id # c.id} \cup {[id |-> c.id, timestamp |-> lpNow]}]
     /\ lpLast' = [lpLast EXCEPT ![c.table] = c.id]
     /\ lpCall' = [lpCall EXCEPT ![s] = IdleCall]
     /\ UNCHANGED lpNow
     /\ UNCHANGED notlp

\* time passes
Tick ==
  /\ lpNow < MaxClock
  /\ lpNow' = lpNow + 1
  /\ UNCHANGED <<lastRows, lpCall, lpLast>>
  /\ UNCHANGED notlp

\* lines 154-159 and 170-175: toArray() gives the rows in the order of the
\* key; the stable sort by descending timestamp puts first the row of the
\* greatest timestamp that has the least key
getLast(rows) ==
  IF rows = {} THEN NoLast
  ELSE (CHOOSE r \in rows :
          \A q \in rows : q.timestamp < r.timestamp \/ (q.timestamp = r.timestamp /\ q.id >= r.id)).id
getLastReadComic == getLast(lastRows["lastReadComic"])
getLastFolder == getLast(lastRows["lastFolder"])

\* ==== the name sorts: sortItems, sortFolderContents, listFiles ===================
\* the items of the file manager (src/unnamed/part_001); names and extensions
\* are sequences of code units, all of lower-case letters, digits and '.',
\* on which localeCompare without options is the order of the code units
FileItem(name, size, extension) ==
  [type |-> "file", name |-> name, size |-> size, extension |-> extension]
FolderItem(name) == [type |-> "folder", name |-> name, children |-> <<>>]
SortPool ==
  { FileItem(<<112, 97, 103, 101, 49, 46, 106, 112, 103>>, 3, <<106, 112, 103>>),      \* "page1.jpg"
    FileItem(<<112, 97, 103, 101, 50, 46, 106, 112, 103>>, 0, <<106, 112, 103>>),      \* "page2.jpg"
    FileItem(<<112, 97, 103, 101, 49, 48, 46, 106, 112, 103>>, 1, <<>>),               \* "page10.jpg"
    FolderItem(<<99, 104, 50>>),                                                     \* "ch2"
    FolderItem(<<99, 104, 49, 48>>) }                                                \* "ch10"
SortListings == {q \in UNION {[1..n -> SortPool] : n \in 0..MaxListing} : Injective(q)}
SortKeys == {"name", "size", "type"}
SortDirections == {"asc", "desc"}

\* localeCompare(b, undefined, {numeric: true, sensitivity: 'base'}): runs of
\* digits compare by their value
IsDigitUnit(c) == c >= 48 /\ c <= 57
RECURSIVE RunLength(_)
RunLength(str) ==
  IF str = <<>> \/ ~IsDigitUnit(Head(str)) THEN 0 ELSE 1 + RunLength(Tail(str))
RECURSIVE RunValue(_, _)
RunValue(str, acc) ==
  IF str = <<>> \/ ~IsDigitUnit(Head(str)) THEN acc
  ELSE RunValue(Tail(str), 10 * acc + (Head(str) - 48))
RECURSIVE localeCompareNumeric(_, _)
localeCompareNumeric(a, b) ==
  IF a = <<>> /\ b = <<>> THEN 0
  ELSE IF a = <<>> THEN -1
  ELSE IF b = <<>> THEN 1
  ELSE IF IsDigitUnit(Head(a)) /\ IsDigitUnit(Head(b))
  THEN IF RunValue(a, 0) < RunValue(b, 0) THEN -1
       ELSE IF RunValue(a, 0) > RunValue(b, 0) THEN 1
       ELSE localeCompareNumeric(SubSeq(a, RunLength(a) + 1, Len(a)),
                                 SubSeq(b, RunLength(b) + 1, Len(b)))
  ELSE IF Head(a) < Head(b) THEN -1
  ELSE IF Head(a) > Head(b) THEN 1
  ELSE localeCompareNumeric(Tail(a), Tail(b))

\* part_001 lines 283-306: the comparison of two folders, or of two files
compareItems(sortKey, sortDirection, a, b) ==
  LET asc == IF a.type = "folder" \/ sortKey = "name" THEN localeCompare(a.name, b.name)
             ELSE IF sortKey = "size" THEN a.size - b.size
             ELSE localeCompare(a.extension, b.extension)
  IN IF sortDirection = "asc" THEN asc ELSE 0 - asc

\* src/lib/getComics.ts lines 118-121
compareLinks(sortKey, sortDirection, a, b) == localeCompareNumeric(a.name, b.name)

\* Array.prototype.sort (stable) with one of the comparisons
RECURSIVE InsertItem(_, _, _, _, _)
InsertItem(numeric, sortKey, sortDirection, item, sorted) ==
  IF sorted = <<>> THEN <<item>>
  ELSE IF (IF numeric THEN compareLinks(sortKey, sortDirection, Head(sorted), item)
                      ELSE compareItems(sortKey, sortDirection, Head(sorted), item)) <= 0
  THEN <<Head(sorted)>> \o InsertItem(numeric, sortKey, sortDirection, item, Tail(sorted))
  ELSE <<item>> \o sorted
RECURSIVE SortItemsBy(_, _, _, _)
SortItemsBy(numeric, sortKey, sortDirection, items) ==
  IF items = <<>> THEN <<>>
  ELSE InsertItem(numeric, sortKey, sortDirection, items[Len(items)],
                  SortItemsBy(numeric, sortKey, sortDirection, SubSeq(items, 1, Len(items) - 1)))

\* Array.prototype.filter by type
RECURSIVE OfType(_, _)
OfType(type, items) ==
  IF items = <<>> THEN <<>>
  ELSE IF Head(items).type = type THEN <<Head(items)>> \o OfType(type, Tail(items))
  ELSE OfType(type, Tail(items))

\* part_001 lines 277-309
sortItems(items, sortKey, sortDirection) ==
  SortItemsBy(FALSE, sortKey, sortDirection, OfType("folder", items))
    \o SortItemsBy(FALSE, sortKey, sortDirection, OfType("file", items))

NoSort == [op |-> "none", sortKey |-> "name", sortDirection |-> "asc"]
SoInitWith(listings) ==
  /\ soIn \in listings
  /\ soOp = NoSort
  /\ soOut = <<>>
SoIdle == SoInitWith({<<>>})
SoInit == SoInitWith(SortListings)

\* the file manager shows the listing (part_001 lines 277-309)
SortInManager(sortKey, sortDirection) ==
  /\ soOp = NoSort
  /\ soOp' = [op |-> "sortItems", sortKey |-> sortKey, sortDirection |-> sortDirection]
  /\ soOut' = sortItems(soIn, sortKey, sortDirection)
  /\ UNCHANGED soIn
  /\ UNCHANGED notso

\* the listing is sorted at sync (src/lib/dexieDB.ts lines 222 and 476-489)
SortAtSync ==
  /\ soOp = NoSort
  /\ soOp' = [NoSort EXCEPT !.op = "sortFolderContents"]
  /\ soOut' = sortFolderContents(soIn)
  /\ UNCHANGED soIn
  /\ UNCHANGED notso

\* the file links of a folder are sorted (src/lib/getComics.ts lines 115-121)
SortInListFiles ==
  /\ soOp = NoSort
  /\ OfType("file", soIn) = soIn
  /\ soOp' = [NoSort EXCEPT !.op = "listFiles"]
  /\ soOut' = SortItemsBy(TRUE, "name", "asc", soIn)
  /\ UNCHANGED soIn
  /\ UNCHANGED notso

\* ==== the file manager: findFolderById, buildPathToFolder (src/unnamed/part_001) ==
\* the nodes of a tree; ids are numbers, the id "0" of the virtual root is 0
TreeFile(id) == [type |-> "file", id |-> id, name |-> <<id>>]
TreeFolder(id, children) == [type |-> "folder", id |-> id, name |-> <<id>>, children |-> children]
SeqsUpTo(S, n) == UNION {[1..k -> S] : k \in 0..n}
\* trees of two levels of folders; an id may occur more than once, and a
\* file may have the id of a folder
Level1 == {TreeFile(3), TreeFile(5), TreeFolder(3, <<>>), TreeFolder(4, <<TreeFile(5)>>)}
Level2 == Level1 \cup {TreeFolder(2, c) : c \in SeqsUpTo(Level1, MaxChildren)}
TreeArrays == SeqsUpTo(Level2, MaxChildren)
\* the prop data: an array of nodes, or a root folder object
ArrayData(items) == [isArray |-> TRUE, items |-> items, root |-> TreeFolder(0, <<>>)]
FolderData(root) == [isArray |-> FALSE, items |-> <<>>, root |-> root]
TreeDatas ==
  {ArrayData(a) : a \in TreeArrays} \cup {FolderData(TreeFolder(1, a)) : a \in TreeArrays}
LastFolderIds == 0..6

\* lines 51-53
isFolder(item) == item.type = "folder"
\* the value null of findFolderById; buildPathToFolder returns null or a list
\* that is not empty, null is the empty list here
NoFolder == [type |-> "null"]
NoPath == <<>>

\* lines 56-73, on itemArray (line 59)
RECURSIVE findFolderById(_, _)
findFolderById(itemArray, id) ==
  IF itemArray = <<>> THEN NoFolder
  ELSE LET item == Head(itemArray)
       IN IF item.id = id /\ isFolder(item) THEN item
          ELSE LET found == IF isFolder(item) THEN findFolderById(item.children, id)
                            ELSE NoFolder
               IN IF found # NoFolder THEN found
                  ELSE findFolderById(Tail(itemArray), id)

RECURSIVE buildPathToFolder_NoPrefix(_, _, _)
buildPathToFolder_NoPrefix(itemArray, folderId, currentPath) ==
  IF itemArray = <<>> THEN NoPath
  ELSE LET item == Head(itemArray)
       IN IF item.id = folderId /\ isFolder(item) THEN Append(currentPath, item)
          ELSE LET path == IF isFolder(item)
                           THEN buildPathToFolder_NoPrefix(item.children, folderId, currentPath)
                           ELSE NoPath
               IN IF path # NoPath THEN path
                  ELSE buildPathToFolder_NoPrefix(Tail(itemArray), folderId, currentPath)

\* lines 76-97, on itemArray (line 83)
RECURSIVE buildPathToFolder(_, _, _)
buildPathToFolder(itemArray, folderId, currentPath) ==
  IF itemArray = <<>> THEN NoPath
  ELSE LET item == Head(itemArray)
       IN IF item.id = folderId /\ isFolder(item) THEN Append(currentPath, item)
          ELSE LET path == IF isFolder(item)
                           THEN buildPathToFolder(item.children, folderId, Append(currentPath, item))
                           ELSE NoPath
               IN IF path # NoPath THEN path
                  ELSE buildPathToFolder(Tail(itemArray), folderId, currentPath)

PmInitWith(datas, ids) ==
  /\ pmData \in datas
  /\ pmLast \in ids
  /\ pmCurrent = NoFolder
  /\ pmPath = <<>>
  /\ pmDone = FALSE
PmIdle == PmInitWith({ArrayData(<<>>)}, {0})
PmInit == PmInitWith(TreeDatas, LastFolderIds)

\* lines 119-134 and 147-162: the root for lastFolderId "0" (or the id of
\* the root folder), the folder found with its path, or else the root
Opened(root, itemArray, pathFrom) ==
  LET lastFolder == findFolderById(itemArray, pmLast)
      folderPath == buildPathToFolder(pathFrom, pmLast, <<>>)
  IN IF pmLast # 0 /\ pmLast # root.id /\ lastFolder # NoFolder /\ folderPath # NoPath
     THEN pmCurrent' = lastFolder /\ pmPath' = folderPath
     ELSE pmCurrent' = root /\ pmPath' = <<root>>

\* lines 108-172: the effect that runs when data is available; for an array
\* the root is a virtual root folder with the id "0", the folder is looked up
\* in the array and its path built from the virtual root
FileManagerInit ==
  /\ ~pmDone
  /\ pmDone' = TRUE
  /\ IF pmData.isArray
     THEN LET virtualRoot == TreeFolder(0, pmData.items)
          IN Opened(virtualRoot, pmData.items, <<virtualRoot>>)
     ELSE Opened(pmData.root, <<pmData.root>>, <<pmData.root>>)
  /\ UNCHANGED <<pmData, pmLast>>
  /\ UNCHANGED notpm

\* ==== getNextId under concurrent calls (src/unnamed/part_000 lines 95-121) =======
\* The calls of getNextId in flight: the storeFile calls (those extractZipFile
\* starts without awaiting them included) with 'lastFileId', the createFolder
\* calls with 'lastFolderId'.  idQueue holds the readwrite transactions on the
\* metadata store in the order of their creation: IndexedDB runs them one at a
\* time in that order.  idHanded is the history of the ids resolved.
IdCalls == 1..NumIdCalls
IdTypes == {"lastFileId", "lastFolderId"}
NoIdCall == [pc |-> "idle", idType |-> "", seen |-> 0, id |-> <<>>, startedAt |-> 0]
IdInit ==
  /\ idCall = [c \in IdCalls |-> NoIdCall]
  /\ idQueue = <<>>
  /\ idHanded = <<>>

idframe == <<fsDb, fsOpen, fsLog, fsXfers, sfvars, dfvars, sqvars>>

\* lines 96-103: the check of db, the transaction, the get request
getNextId(c, idType) ==
  /\ idCall[c].pc = "idle"
  /\ IF ~fsDb
     THEN /\ idCall' = [idCall EXCEPT ![c] = [@ EXCEPT !.pc = "rejected", !.idType = idType]]
          /\ UNCHANGED idQueue
     ELSE /\ idCall' = [idCall EXCEPT ![c] = [@ EXCEPT !.pc = "queued", !.idType = idType,
                                                       !.startedAt = Len(idHanded)]]
          /\ idQueue' = Append(idQueue, c)
  /\ UNCHANGED <<idHanded, stores, idframe>>
  /\ UNCHANGED notid

\* the get of another transaction than the one that puts: the transaction is
\* over once the value is read
IdGet_OwnTransaction(c) ==
  /\ idQueue # <<>> /\ Head(idQueue) = c
  /\ idCall[c].pc = "queued"
  /\ idCall' = [idCall EXCEPT ![c] = [@ EXCEPT !.pc = "got", !.seen = fsMeta[idCall[c].idType]]]
  /\ idQueue' = Tail(idQueue)
  /\ UNCHANGED <<idHanded, stores, idframe>>
  /\ UNCHANGED notid

\* lines 99-103: the transaction is the oldest on the store and runs; its get
\* reads the counter
IdGet(c) ==
  /\ idQueue # <<>> /\ Head(idQueue) = c
  /\ idCall[c].pc = "queued"
  /\ idCall' = [idCall EXCEPT ![c] = [@ EXCEPT !.pc = "got", !.seen = fsMeta[idCall[c].idType]]]
  /\ UNCHANGED <<idQueue, idHanded, stores, idframe>>
  /\ UNCHANGED notid

\* lines 105-116, request.onsuccess: the put of value + 1 and the resolve; then
\* the caller goes on (lines 136-156 of storeFile, lines 333-342 of
\* createFolder) and adds its row, which fails when the key is taken
IdGetSuccess(c) ==
  /\ idCall[c].pc = "got"
  /\ LET idType == idCall[c].idType
         newId == idCall[c].seen + 1
         id == IdString(newId)
     IN /\ fsMeta' = [fsMeta EXCEPT ![idType] = newId]
        /\ idCall' = [idCall EXCEPT ![c] = [@ EXCEPT !.pc = "resolved", !.id = id]]
        /\ idHanded' = Append(idHanded, [idType |-> idType, value |-> newId, id |-> id])
        /\ IF idType = "lastFileId"
           THEN /\ fsFiles' = IF id \in DOMAIN fsFiles THEN fsFiles
                              ELSE FsPut(fsFiles, id, FileData(id, FileObj("p.jpg", "image/jpeg", RootId)))
                /\ UNCHANGED fsFolders
           ELSE /\ fsFolders' = IF id \in DOMAIN fsFolders THEN fsFolders
                                ELSE FsPut(fsFolders, id, [id |-> id, name |-> "n", parentId |-> RootId])
                /\ UNCHANGED fsFiles
  /\ UNCHANGED <<idQueue, idframe>>
  /\ UNCHANGED notid

\* the transaction has no request left and completes; the next one may run
IdComplete(c) ==
  /\ idQueue # <<>> /\ Head(idQueue) = c
  /\ idCall[c].pc = "resolved"
  /\ idCall' = [idCall EXCEPT ![c] = [@ EXCEPT !.pc = "done"]]
  /\ idQueue' = Tail(idQueue)
  /\ UNCHANGED <<idHanded, stores, idframe>>
  /\ UNCHANGED notid

\* ==== specifications ==========================================================
\* the download calls on their own, the snapshot and progress tables empty
Init == DlInit /\ SyInitWith({NoProgress}, FALSE) /\ PgInit /\ BfIdle /\ LfInit /\ FsIdle /\ LgInit /\ RdIdle /\ LpInit /\ MfInit /\ SoIdle /\ PmIdle /\ PlInit /\ IdInit
Next == DlNext
Spec == Init /\ [][Next]_vars

\* the snapshot tasks on their own, the download table empty
SyncInit == DlInitWith({0}) /\ SyInit /\ PgInit /\ BfIdle /\ LfInit /\ FsIdle /\ LgInit /\ RdIdle /\ LpInit /\ MfInit /\ SoIdle /\ PmIdle /\ PlInit /\ IdInit
SyncNext == SyNext
SyncSpec == SyncInit /\ [][SyncNext]_vars

\* progress calls made one after the other
SeqInit == DlInitWith({0}) /\ SyInitOf(PgProgresses, {TreeA}) /\ PgInit /\ BfIdle /\ LfInit /\ FsIdle /\ LgInit /\ RdIdle /\ LpInit /\ MfInit /\ SoIdle /\ PmIdle /\ PlInit /\ IdInit
SeqNext ==
  \/ \E o \in Ops, id \in PgIds, status \in Statuses, lastPage \in 1..2,
        totalPages \in {0, NumPages} :
       Quiet /\ markComicStatus(o, id, status, lastPage, totalPages)
  \/ \E o \in Ops, id \in PgIds, totalPages \in {0, NumPages} :
       Quiet /\ setTotalPages(o, id, totalPages)
  \/ \E o \in Ops : McsGetRoot(o)
  \/ \E o \in Ops : McsPutRoot(o)
  \/ \E o \in Ops : StpPut(o)
  \/ \E o \in Ops : StpGetRoot(o)
  \/ \E o \in Ops : StpPutRoot(o)
SeqSpec == SeqInit /\ [][SeqNext]_vars

\* the file manager and the reader writing progress, in any interleaving
ProgInit == DlInitWith({0}) /\ SyInitOf(PgProgresses, {TreeA}) /\ PgInit /\ BfIdle /\ LfInit /\ FsIdle /\ LgInit /\ RdIdle /\ LpInit /\ MfInit /\ SoIdle /\ PmIdle /\ PlInit /\ IdInit
ProgNext ==
  \/ \E t \in Tasks : getComicsData(t)
  \/ \E t \in Tasks : GcRoot(t)
  \/ \E t \in Tasks : GcReturn(t)
  \/ \E o \in Ops, t \in Tasks, id \in FileIds :
       \E file \in {f \in FilesOf(tres[t].content) : f.id = id} : handleFileClick(o, t, file)
  \/ \E o \in Ops, id \in PgIds, currentPage \in 0..(NumPages + 1) :
       \E len \in {0, ImagesOf(id)} : PageChange(o, id, currentPage, len)
  \/ \E o \in Ops : McsGetRoot(o)
  \/ \E o \in Ops : McsPutRoot(o)
  \/ \E o \in Ops : StpPut(o)
  \/ \E o \in Ops : StpGetRoot(o)
  \/ \E o \in Ops : StpPutRoot(o)
ProgSpec == ProgInit /\ [][ProgNext]_vars

\* batchFiles applied to every list of up to MaxFiles files and every batch
\* size from 1 to MaxBatchSize
BatchInit == DlInitWith({0}) /\ SyInitWith({NoProgress}, FALSE) /\ PgInit /\ BfInit /\ LfInit /\ FsIdle /\ LgInit /\ RdIdle /\ LpInit /\ MfInit /\ SoIdle /\ PmIdle /\ PlInit /\ IdInit
BatchNext == BatchFilesCall
BatchSpec == BatchInit /\ [][BatchNext]_vars

\* listFiles over a server with up to NumFolders folders, each fetch failing or
\* giving one of the listings of Htmls
ListInit == DlInitWith({0}) /\ SyInitWith({NoProgress}, FALSE) /\ PgInit /\ BfIdle /\ LfInit /\ FsIdle /\ LgInit /\ RdIdle /\ LpInit /\ MfInit /\ SoIdle /\ PmIdle /\ PlInit /\ IdInit
ListNext ==
  \/ listFiles
  \/ BaseResponse
  \/ BaseError
  \/ \E n \in 0..NumFolders : BaseText(n)
  \/ FolderResponse
  \/ \E tag \in Htmls : FolderText(tag)
  \/ FolderError
ListSpec == ListInit /\ [][ListNext]_vars

\* downloadFilesSequentially over every list of up to MaxUrls urls, before and
\* after init, with every outcome of each request and of storing the file
SeqDlInit == DlInitWith({0}) /\ SyInitWith({NoProgress}, FALSE) /\ PgInit /\ BfIdle /\ LfInit /\ FsInit /\ LgInit /\ RdIdle /\ LpInit /\ MfInit /\ SoIdle /\ PmIdle /\ PlInit /\ IdInit
SeqDlNext ==
  \/ init
  \/ InitSuccess
  \/ InitError
  \/ \E urls \in UrlLists : downloadFilesSequentially(urls)
  \/ \E headers \in Headers : HeadResponse(headers)
  \/ HeadError
  \/ \E kind \in {"notOk", "noBody", "stream"} : GetResponse(kind)
  \/ GetError
  \/ ReadDone
  \/ ReadError
  \/ XhrTryLoad
  \/ XhrTryError
  \/ XhrLoad
  \/ XhrError
  \/ SfLoaded
  \/ SfReadError
  \/ \E accepted \in BOOLEAN : SfNextId(accepted)
  \/ SfAdded
  \/ SfAddError
SeqDlSpec == SeqDlInit /\ [][SeqDlNext]_vars

\* every public operation of FileStorage, called before and after init, one
\* call after the other
StorageInit == DlInitWith({0}) /\ SyInitWith({NoProgress}, FALSE) /\ PgInit /\ BfIdle /\ LfInit /\ FsInit /\ LgInit /\ RdIdle /\ LpInit /\ MfInit /\ SoIdle /\ PmIdle /\ PlInit /\ IdInit
\* no call of the component is in progress, and fewer than NumStorageOps are
\* finished
Quiescent ==
  /\ sfpc = "idle" /\ dfpc = "idle" /\ sqpc # "running" /\ lgpc = "idle"
  /\ Len(fsLog) < NumStorageOps
StorageNext ==
  \/ init
  \/ InitSuccess
  \/ InitError
  \/ \E name \in {"a.zip", "b.jpg"} : Quiescent /\ storeFile(FileObj(name, "", RootId))
  \/ SfLoaded
  \/ SfReadError
  \/ \E accepted \in BOOLEAN : SfNextId(accepted)
  \/ SfAdded
  \/ SfAddError
  \/ \E folderId \in FolderIds : Quiescent /\ getFilesInFolder(folderId)
  \/ Quiescent /\ getAllFiles
  \/ \E fileId \in FsIds : Quiescent /\ getFile(fileId)
  \/ \E fileId \in FsIds, newFolderId \in FolderIds : Quiescent /\ moveFile(fileId, newFolderId)
  \/ \E fileId \in FsIds : Quiescent /\ deleteFile(fileId)
  \/ \E fileId \in FsIds, isRead \in BOOLEAN : Quiescent /\ markFileAsRead(fileId, isRead)
  \/ \E fileId \in FsIds : Quiescent /\ toggleFileReadStatus(fileId)
  \/ \E fileIds \in SUBSET FsIds, isRead \in BOOLEAN : Quiescent /\ markMultipleFilesAsRead(fileIds, isRead)
  \/ \E parentId \in FolderIds : Quiescent /\ parentId \in DOMAIN fsFolders /\ createFolder("n", parentId)
  \/ Quiescent /\ getAllFolders
  \/ \E parentId \in FolderIds : Quiescent /\ getSubFolders(parentId)
  \/ \E folderId \in FolderIds : Quiescent /\ getFolder(folderId)
  \/ \E folderId \in FolderIds : Quiescent /\ deleteFolder(folderId)
  \/ \E folderId, newParentId \in FolderIds : Quiescent /\ moveFolder(folderId, newParentId)
  \/ \E fileId \in FsIds, k \in 0..MaxEntries : Quiescent /\ extractZipFile(fileId, k)
  \/ \E fileId \in FsIds : Quiescent /\ setLastOpenedComic(fileId)
  \/ Quiescent /\ getLastOpenedComic
  \/ \E url \in Urls : Quiescent /\ downloadFileFromUrl(url)
  \/ \E urls \in UrlLists : Quiescent /\ downloadFilesSequentially(urls)
  \/ \E headers \in Headers : HeadResponse(headers)
  \/ HeadError
  \/ \E kind \in {"notOk", "noBody", "stream"} : GetResponse(kind)
  \/ GetError
  \/ ReadDone
  \/ ReadError
  \/ XhrTryLoad
  \/ XhrTryError
  \/ XhrLoad
  \/ XhrError
  \/ LegacyInit
  \/ LegacyInitSuccess
  \/ Quiescent /\ LegacyGetAllFiles
  \/ \E fileId \in FsIds : Quiescent /\ LegacyGetFile(fileId)
  \/ \E fileId \in FsIds : Quiescent /\ LegacyDeleteFile(fileId)
  \/ Quiescent /\ LegacyStoreFile
  \/ LegacyLoaded
StorageSpec == StorageInit /\ [][StorageNext]_vars

\* a reader in which comics are opened one after the other, by mounting the
\* component or by changing the id of a mounted component
Page1 == ZipEntry(<<49, 46, 106, 112, 103>>, FALSE)
Page2 == ZipEntry(<<50, 46, 112, 110, 103>>, FALSE)
ViewArchives == { <<>>, <<Page1>>, <<Page2, Page1>> }
ViewInit == DlInitWith({0}) /\ SyInitWith({NoProgress}, FALSE) /\ PgInit /\ BfIdle /\ LfInit /\ FsIdle /\ LgInit /\ RdInit /\ LpInit /\ MfInit /\ SoIdle /\ PmIdle /\ PlInit /\ IdInit
ViewNext ==
  \/ \E archive \in ViewArchives : Mount(archive)
  \/ \E archive \in ViewArchives : ChangeId(archive)
  \/ Unmount
  \/ \E k \in Opens, ok \in BOOLEAN : LoadAsync(k, ok)
  \/ \E k \in Opens, i \in 1..MaxArchive, ok \in BOOLEAN : Decode(k, i, ok)
ViewSpec == ViewInit /\ [][ViewNext]_vars

\* one comic is opened in a reader: every archive of up to MaxArchive entries
\* of the pool, in every order, with every outcome of loadAsync and of the
\* decode of each entry
Archives == {a \in UNION {[1..n -> EntryPool] : n \in 0..MaxArchive} : Injective(a)}
ExtractInit == DlInitWith({0}) /\ SyInitWith({NoProgress}, FALSE) /\ PgInit /\ BfIdle /\ LfInit /\ FsIdle /\ LgInit /\ RdInit /\ LpInit /\ MfInit /\ SoIdle /\ PmIdle /\ PlInit /\ IdInit
ExtractNext ==
  \/ \E archive \in Archives : Mount(archive)
  \/ \E k \in Opens, ok \in BOOLEAN : LoadAsync(k, ok)
  \/ \E k \in Opens, i \in 1..MaxArchive, ok \in BOOLEAN : Decode(k, i, ok)
ExtractSpec == ExtractInit /\ [][ExtractNext]_vars

\* one comic is opened in a reader over a full download table; the reader of
\* part_005 goes on to preload the next comic
Notes == ZipEntry(<<97, 46, 116, 120, 116>>, FALSE)
ReaderArchives == ViewArchives \cup { <<Notes>> }
ReaderInit == DlInitWith({MaxComics}) /\ SyInitWith({NoProgress}, FALSE) /\ PgInit /\ BfIdle /\ LfInit /\ FsIdle /\ LgInit /\ RdInit /\ LpInit /\ MfInit /\ SoIdle /\ PmIdle /\ PlInit /\ IdInit
ReaderNext ==
  \/ \E archive \in ReaderArchives : Mount(archive)
  \/ \E k \in Opens, ok \in BOOLEAN : LoadAsync(k, ok)
  \/ \E k \in Opens, i \in 1..MaxArchive, ok \in BOOLEAN : Decode(k, i, ok)
  \/ \E k \in Opens, c \in Calls, id \in Wanted : preloadNextComic(k, c, id)
  \/ \E c \in Calls : CheckCached(c)
  \/ \E c \in Calls, ok \in BOOLEAN : FetchResponse(c, ok)
  \/ \E c \in Calls : FetchError(c)
  \/ \E c \in Calls : BackoffDone(c)
  \/ \E c \in Calls : BodyDone(c)
  \/ \E c \in Calls : BodyError(c)
  \/ \E c \in Calls : EnforceQuery(c)
  \/ \E c \in Calls : EnforceStep(c)
  \/ \E c \in Calls : Elapse(c)
ReaderSpec == ReaderInit /\ [][ReaderNext]_vars

\* the calls of setLastReadComic and setLastFolder, overlapping
LastInit == DlInitWith({0}) /\ SyInitWith({NoProgress}, FALSE) /\ PgInit /\ BfIdle /\ LfInit /\ FsIdle /\ LgInit /\ RdIdle /\ LpInit /\ MfInit /\ SoIdle /\ PmIdle /\ PlInit /\ IdInit
LastNext ==
  \/ \E s \in SetCalls, t \in LastTables, id \in LastIds : setLast(s, t, id)
  \/ \E s \in SetCalls : SetPut(s)
  \/ Tick
LastSpec == LastInit /\ [][LastNext]_vars

\* every listing of up to MaxListing items, sorted by the file manager, at
\* sync, or by listFiles
SortInit == DlInitWith({0}) /\ SyInitWith({NoProgress}, FALSE) /\ PgInit /\ BfIdle /\ LfInit /\ FsIdle /\ LgInit /\ RdIdle /\ LpInit /\ MfInit /\ SoInit /\ PmIdle /\ PlInit /\ IdInit
SortNext ==
  \/ \E sortKey \in SortKeys, sortDirection \in SortDirections : SortInManager(sortKey, sortDirection)
  \/ SortAtSync
  \/ SortInListFiles
SortSpec == SortInit /\ [][SortNext]_vars

\* the file manager is given every tree and every last folder id
PathInit == DlInitWith({0}) /\ SyInitWith({NoProgress}, FALSE) /\ PgInit /\ BfIdle /\ LfInit /\ FsIdle /\ LgInit /\ RdIdle /\ LpInit /\ MfInit /\ SoIdle /\ PmInit /\ PlInit /\ IdInit
PathNext == FileManagerInit
PathSpec == PathInit /\ [][PathNext]_vars

\* the download machine under fair scheduling: the network answers or fails
\* every request, every timer that is set fires, every storage request
\* completes and every continuation that is ready runs
Continue(c) ==
  \/ LoadDecide(c)
  \/ CheckCached(c)
  \/ \E ok \in BOOLEAN : FetchResponse(c, ok)
  \/ FetchError(c)
  \/ BackoffDone(c)
  \/ BodyDone(c)
  \/ BodyError(c)
  \/ EnforceQuery(c)
  \/ EnforceStep(c)
  \/ LoadReadBack(c)
  \/ LoadFailed(c)
\* some pending call always gets its next step; as every call takes finitely
\* many steps, this is all that fairness to each single call would add
DlFairness == WF_vars(\E c \in Calls : Continue(c))
\* the calls of one reader session over a full cache, for the first id beyond
\* the capacity; nothing is deleted by the user meanwhile
FairWanted == {MaxComics + 1}
FairInit == DlInitWith({MaxComics}) /\ SyInitWith({NoProgress}, FALSE) /\ PgInit /\ BfIdle /\ LfInit /\ FsIdle /\ LgInit /\ RdIdle /\ LpInit /\ MfInit /\ SoIdle /\ PmIdle /\ PlInit /\ IdInit
FairNext ==
  \/ \E c \in Calls, id \in FairWanted : LoadComic(c, id)
  \/ \E c \in Calls : LoadDecide(c)
  \/ \E c \in Calls, id \in FairWanted : preloadComic(c, id)
  \/ \E c \in Calls : CheckCached(c)
  \/ \E c \in Calls, ok \in BOOLEAN : FetchResponse(c, ok)
  \/ \E c \in Calls : FetchError(c)
  \/ \E c \in Calls : BackoffDone(c)
  \/ \E c \in Calls : BodyDone(c)
  \/ \E c \in Calls : BodyError(c)
  \/ \E c \in Calls : EnforceQuery(c)
  \/ \E c \in Calls : EnforceStep(c)
  \/ \E c \in Calls : Elapse(c)
  \/ \E c \in Calls : LoadReadBack(c)
  \/ \E c \in Calls : LoadFailed(c)
FairSpec == FairInit /\ [][FairNext]_vars /\ DlFairness

\* preloads alone: every outcome of the download, a failed storage request
\* included, and the handler of preloadComic
PreloadNext ==
  \/ \E c \in Calls, id \in Wanted : preloadComic(c, id)
  \/ \E c \in Calls : DlGetError(c)
  \/ \E c \in Calls : CheckCached(c)
  \/ \E c \in Calls, ok \in BOOLEAN : FetchResponse(c, ok)
  \/ \E c \in Calls : FetchError(c)
  \/ \E c \in Calls : BackoffDone(c)
  \/ \E c \in Calls : BodyDone(c)
  \/ \E c \in Calls : BodyError(c)
  \/ \E c \in Calls : EnforceQuery(c)
  \/ \E c \in Calls : EnforceStep(c)
  \/ \E c \in Calls : Elapse(c)
  \/ \E c \in Calls : PreloadCaught(c)
PreloadSpec == Init /\ [][PreloadNext]_vars

\* the home page syncing (app/page.tsx line 29) while progress of file 1 is
\* written, in any interleaving; the snapshot table holds the listing TreeB
\* of an earlier sync (or nothing) and the remote answers with TreeA
RaceInit == DlInitWith({0}) /\ SyInitOf(PgProgresses, {TreeB}) /\ PgInit /\ BfIdle /\ LfInit /\ FsIdle /\ LgInit /\ RdIdle /\ LpInit /\ MfInit /\ SoIdle /\ PmIdle /\ PlInit /\ IdInit
\* one sync and two progress calls
RaceTasks == {1}
RaceOps == {1, 2}
RaceNext ==
  \/ \E t \in RaceTasks : updateFromRemoteDB(t)
  \/ \E t \in RaceTasks, outcome \in {"ok", "networkError"} : SyncFetched(t, outcome)
  \/ \E t \in RaceTasks : SyncJson(t, RawArray(TreeA))
  \/ \E t \in RaceTasks : SyncClear(t)
  \/ \E t \in RaceTasks : SyncPut(t)
  \/ \E t \in RaceTasks : GcRoot(t)
  \/ \E t \in RaceTasks : GcReturn(t)
  \/ \E o \in RaceOps : markComicStatus(o, 1, "completed", 2, NumPages)
  \/ \E o \in RaceOps : setTotalPages(o, 1, NumPages)
  \/ \E o \in RaceOps : McsGetRoot(o)
  \/ \E o \in RaceOps : McsPutRoot(o)
  \/ \E o \in RaceOps : StpPut(o)
  \/ \E o \in RaceOps : StpGetRoot(o)
  \/ \E o \in RaceOps : StpPutRoot(o)
RaceSpec == RaceInit /\ [][RaceNext]_vars

\* storeFile and createFolder calls that overlap, before and after init
IdsInit == DlInitWith({0}) /\ SyInitWith({NoProgress}, FALSE) /\ PgInit /\ BfIdle /\ LfInit /\ FsInit /\ LgInit /\ RdIdle /\ LpInit /\ MfInit /\ SoIdle /\ PmIdle /\ PlInit /\ IdInit
IdsNext ==
  \/ init
  \/ InitSuccess
  \/ \E c \in IdCalls, idType \in IdTypes : getNextId(c, idType)
  \/ \E c \in IdCalls : IdGet(c)
  \/ \E c \in IdCalls : IdGetSuccess(c)
  \/ \E c \in IdCalls : IdComplete(c)
IdsSpec == IdsInit /\ [][IdsNext]_vars

\* folder trees as earlier createFolder calls left them, with at most one file,
\* and then at most NumFsOps calls of createFolder, moveFolder and deleteFolder.
\* A folder is created under a folder that exists, so its parent has the
\* smaller id; 0 stands for 'root' in a choice of parents.
TreeIds == {RootId} \cup {IdString(i) : i \in 1..(MaxFolders + 1)}
ParentChoices(n) == {p \in [1..n -> 0..n] : \A i \in 1..n : p[i] < i}
FolderStoreOf(n, p) ==
  [k \in {RootId} \cup {IdString(i) : i \in 1..n} |->
     IF k = RootId THEN [id |-> RootId, name |-> "Root", parentId |-> <<>>]
     ELSE LET i == CHOOSE j \in 1..n : IdString(j) = k
          IN [id |-> k, name |-> "n",
              parentId |-> IF p[i] = 0 THEN RootId ELSE IdString(p[i])]]
FsInitTrees ==
  /\ fsDb = FALSE
  /\ fsOpen = "none"
  /\ \E n \in 0..MaxFolders : \E p \in ParentChoices(n) :
        /\ fsFolders = FolderStoreOf(n, p)
        /\ \/ fsFiles = EmptyStore /\ fsMeta = [lastFileId |-> 0, lastFolderId |-> n]
           \/ \E folderId \in DOMAIN FolderStoreOf(n, p) :
                 /\ fsFiles = FsPut(EmptyStore, IdString(1),
                                    FileData(IdString(1), FileObj("b.jpg", "image/jpeg", folderId)))
                 /\ fsMeta = [lastFileId |-> 1, lastFolderId |-> n]
  /\ fsLog = <<>>
  /\ fsXfers = {}
  /\ sfpc = "idle" /\ sfFile = NoFile /\ sfCaller = "none" /\ sfDbAtCall = FALSE /\ sfId = <<>>
  /\ dfpc = "idle" /\ dfUrl = "" /\ dfCaller = "none" /\ dfMsg = "" /\ dfHead = [type |-> "", disposition |-> ""]
  /\ sqpc = "idle" /\ sqUrls = <<>> /\ sqI = 0 /\ sqOk = <<>> /\ sqFailed = <<>> /\ sqTried = <<>> /\ sqHist = <<>> /\ sqDbAtCall = FALSE
FoldersInit == DlInitWith({0}) /\ SyInitWith({NoProgress}, FALSE) /\ PgInit /\ BfIdle /\ LfInit /\ FsInitTrees /\ LgInit /\ RdIdle /\ LpInit /\ MfInit /\ SoIdle /\ PmIdle /\ PlInit /\ IdInit
\* the file manager creates folders in the folder it shows (part_001 line 583)
\* and never deletes 'root' (file-manager.tsx lines 322-324)
FoldersNext ==
  \/ init
  \/ InitSuccess
  \/ \E parentId \in TreeIds : parentId \in DOMAIN fsFolders /\ createFolder("n", parentId)
  \/ \E folderId, newParentId \in TreeIds : moveFolder(folderId, newParentId)
  \/ \E folderId \in TreeIds \ {RootId} : deleteFolder(folderId)
FoldersSpec == FoldersInit /\ [][FoldersNext]_vars

\* ==== claims ================================================================
\* a transfer of call c is in flight: between the first fetch and the end of
\* the body read
InFlight(c) == pc[c] \in {"fetch", "backoff", "blob"}
Range(q) == {q[i] : i \in 1..Len(q)}

\* C1: for every id at most one transfer is in flight at a time; a call made
\* while an earlier call for the same id is still in progress starts no
\* fetch of its own.
C1_SingleTransfer ==
  \A c, d \in Calls : (c # d /\ InFlight(c) /\ InFlight(d)) => cid[c] # cid[d]

\* C2: completed is terminal: a completed record is only ever left as it is
\* or removed (eviction, explicit delete); no step turns it into an
\* in_progress or failed record or strips its blob.
C2_CompletedTerminal ==
  [][\A i \in Ids :
       comicDownloads[i].status = "completed"
         => comicDownloads'[i] \in {comicDownloads[i], Absent}]_vars

\* C3: a downloadComic(id) that finds the record of id completed with a blob
\* returns that record, makes no fetch and writes nothing to the table.
C3_Idempotent ==
  [][\A c \in Calls :
       (/\ pc[c] = "get"
        /\ meta[c].status = "completed"
        /\ meta[c].data # NoBlob
        /\ pc'[c] # "get")
       => (/\ pc'[c] = "resolved"
           /\ result'[c] = meta[c]
           /\ result'[c].data = BlobOf(UrlOf(cid[c]))
           /\ attempts'[c] = 0
           /\ comicDownloads' = comicDownloads)]_vars
\* a call has returned the cached record without fetching
C3_Witness ==
  \E c \in Calls :
    pc[c] = "resolved" /\ attempts[c] = 0 /\ result[c].status = "completed"
                       /\ result[c] = comicDownloads[cid[c]]

InWindow(c) == pc[c] \in {"putCompleted", "enforce"}
C5_CacheBound ==
  (\A c \in Calls : ~InWindow(c))
    => Cardinality(Completed(comicDownloads)) <= MaxComics
\* two overlapping downloads beyond the capacity have both finished and the
\* two oldest records have been evicted
C5_Witness ==
  /\ \A c \in Calls : pc[c] \in {"resolved", "shown"} /\ attempts[c] > 0
  /\ cid[1] # cid[2]
  /\ Cardinality(Completed(comicDownloads)) = MaxComics
  /\ comicDownloads[1] = Absent /\ comicDownloads[2] = Absent

\* C6: every record of the table is well formed: it is stored under its own
\* id, carries a blob iff it is completed, a completed record has progress
\* 100 and a timestamp, a failed one an error message and no blob, an
\* in_progress one a progress below 100.
WellFormed(i, r) ==
  /\ r.id = i
  /\ r.status \in {"in_progress", "completed", "failed"}
  /\ (r.data # NoBlob) <=> (r.status = "completed")
  /\ r.status = "completed" => (r.progress = 100 /\ r.downloadedAt > 0)
  /\ r.status = "failed" => (r.error # "" /\ r.data = NoBlob)
  /\ r.status = "in_progress" => r.progress < 100
C7_Timeout ==
  \A c \in Calls :
    elapsed[c] =>
      /\ pc[c] \notin {"putCompleted", "enforce", "resolved", "shown"}
      /\ pc[c] \in {"rejected", "error"}
           => (meta[c].status = "failed" /\ meta[c].error = "Download timed out")

\* C8: a call makes at most 3 fetch attempts, waits 1 s after the first and
\* 2 s after the second failed one, and its record becomes failed for a
\* network error only after the third failed attempt.
C8_RetryBound ==
  \A c \in Calls :
    /\ attempts[c] <= 3
    /\ pc[c] = "backoff" => (attempts[c] = 1 /\ delay[c] = 1000)
                            \/ (attempts[c] = 2 /\ delay[c] = 2000)
    /\ (meta[c].status = "failed" /\ meta[c].error = "Failed to fetch")
         => attempts[c] = 3

\* C9: a failed preload never makes the foreground read path fail: the
\* getDownloadedComic that follows a successful foreground downloadComic
\* never finds the failed record of a preload instead of the blob.
C9_PreloadIsolation ==
  \A f, p \in Calls :
    (/\ Foreground(f) /\ ~Foreground(p)
     /\ cid[f] = cid[p]
     /\ pc[p] = "rejected"
     /\ result[f].status = "completed"
     /\ pc[f] = "error")
    => lcMeta[f] # meta[p]
\* C10: once a content snapshot has been persisted, a getComicsData call never
\* returns undefined, however it interleaves with updateFromRemoteDB.
C10_AtomicReplace ==
  \A t \in Tasks :
    (top[t] = "getComicsData" /\ tsaw[t] /\ tpc[t] = "done") => tres[t].defined

\* a task running updateFromRemoteDB is in its catch block (lines 228-235)
InCatch(t) == top[t] = "updateFromRemoteDB" /\ tpc[t] \in {"gcGet", "gcRead"}

\* C11: an updateFromRemoteDB that fails (network error, non-ok response,
\* JSON syntax error, unaccepted shape) resolves with the persisted tree when
\* the snapshot table holds one and rejects otherwise; none of its steps
\* from the failure on changes the snapshot table or the progress table.
C11_FailureFallback ==
  [][\A t \in Tasks :
       (top[t] = "updateFromRemoteDB" /\ tpc'[t] # tpc[t]) =>
         /\ (tpc'[t] = "gcGet" \/ InCatch(t))
              => (comics' = comics /\ readComics' = readComics)
         /\ tpc[t] = "gcGet"
              => tpc'[t] = (IF troot[t].present THEN "gcRead" ELSE "rejected")
         /\ tpc[t] = "gcRead"
              => (tpc'[t] = "done" /\ tres'[t] = Defined(troot[t].content))
         /\ tpc'[t] = "rejected"
              => (tpc[t] = "gcGet" /\ ~troot[t].present)]_vars
\* a failed sync has resolved with the tree that was persisted before it
C11_Witness ==
  \E t \in Tasks :
    /\ top[t] = "updateFromRemoteDB" /\ tpc[t] = "done"
    /\ troot[t].present /\ tres[t] = Defined(troot[t].content)
    /\ tsaw[t] /\ comics = troot[t]

\* every file node carries the progress row of its id, or {unread, 0, 0}
Overlaid(data, table) ==
  \A f \in FilesOf(data) :
    IF table[f.id] # NoStatus
    THEN /\ f.readStatus = table[f.id].status
         /\ f.lastPage = table[f.id].lastPage
         /\ f.totalPages = table[f.id].totalPages
    ELSE f.readStatus = "unread" /\ f.lastPage = 0 /\ f.totalPages = 0

\* a tree with the three progress fields of its file nodes blanked
RECURSIVE Strip(_)
Strip(data) ==
  [i \in 1..Len(data) |->
     IF data[i].type = "file"
     THEN [data[i] EXCEPT !.readStatus = "", !.lastPage = 0, !.totalPages = 0]
     ELSE [data[i] EXCEPT !.children = Strip(data[i].children)]]

\* the listings a tree can stem from, sorted as line 222 sorts them
Listings ==
  {sortFolderContents(Strip(ExtractData(m).data)) :
     m \in {r \in Manifests : r.json # "syntaxError" /\ ExtractData(r).ok}}

\* C12: every tree a getComicsData or updateFromRemoteDB call has resolved
\* with, and the tree persisted, carries on each file node at any depth the
\* progress row of its id or {unread, 0, 0}; apart from these three fields it
\* is a listing of the remote, folders and all other fields unchanged.
C12_ProgressOverlay ==
  /\ \A t \in Tasks :
       (tpc[t] = "done" /\ tres[t].defined)
         => (Overlaid(tres[t].content, readComics) /\ Strip(tres[t].content) \in Listings)
  /\ comics.present
       => (Overlaid(comics.content, readComics) /\ Strip(comics.content) \in Listings)
\* a sync has returned and persisted a tree in which a nested file carries its
\* progress row and the file the remote reported as completed is unread
C12_Witness ==
  \E t \in Tasks :
    /\ top[t] = "updateFromRemoteDB" /\ tpc[t] = "done" /\ tres[t].defined
    /\ comics = Root(tres[t].content)
    /\ \E f, g \in FilesOf(tres[t].content) :
         /\ f.id = 1 /\ f.readStatus = "in_progress" /\ f.lastPage = 3
         /\ g.id = 3 /\ g.readStatus = "unread" /\ g.totalPages = 0
         /\ \E r \in FilesOf(TreeA) : r.id = 3 /\ r.readStatus = "completed"

\* what getComicsData returns when no other call is under way
TreeNow ==
  IF comics.present THEN updateStatusInData(comics.content, readComics) ELSE <<>>
\* the file node of id carries the row
NodeIs(data, id, row) ==
  \A f \in FilesOf(data) :
    f.id = id => (/\ f.readStatus = row.status
                  /\ f.lastPage = row.lastPage
                  /\ f.totalPages = row.totalPages)

\* the put of setTotalPages keeps status and lastPage of an existing row and
\* sets totalPages, or creates {unread, 0, n}; it touches no other row
SetTotalPagesUpserts ==
  \A o \in Ops :
    (ppc[o] = "stpGet" /\ ppc'[o] = "stpPut") =>
      LET id == parg[o].id
          n == parg[o].totalPages
      IN /\ readComics'[id] =
              (IF readComics[id] # NoStatus
               THEN Row(readComics[id].status, readComics[id].lastPage, n)
               ELSE Row("unread", 0, n))
         /\ \A j \in FileIds \ {id} : readComics'[j] = readComics[j]
\* markComicStatus(id, s, p) followed by setTotalPages(id, n) reads back as
\* {s, p, n} from getComicStatus and from the file node in getComicsData
RoundTrip ==
  \A o \in Ops :
    (/\ o + 1 \in Ops
     /\ pop[o] = "markComicStatus" /\ pop[o + 1] = "setTotalPages"
     /\ parg[o].id = parg[o + 1].id
     /\ ppc[o + 1] = "done"
     /\ (o + 2 \in Ops => ppc[o + 2] = "idle"))
    => LET row == Row(parg[o].status, parg[o].lastPage, parg[o + 1].totalPages)
       IN /\ getComicStatus(readComics, parg[o].id) = row
          /\ NodeIs(TreeNow, parg[o].id, row)

\* C13: setTotalPages(id, n) upserts: an existing row keeps status and
\* lastPage and gets totalPages n, otherwise {unread, 0, n} is created; so
\* markComicStatus(id, s, p) then setTotalPages(id, n) reads back as
\* {s, p, n} from getComicStatus and from the file node in getComicsData.
C13_SetTotalPages == [](RoundTrip) /\ [][SetTotalPagesUpserts]_vars
\* markComicStatus(1, in_progress, 2) then setTotalPages(1, NumPages) have run
\* on a stored tree and the row reads back as {in_progress, 2, NumPages}
C13_Witness ==
  /\ pop[1] = "markComicStatus" /\ pop[2] = "setTotalPages" /\ ppc[2] = "done"
  /\ parg[1].id = 1 /\ parg[2].id = 1 /\ comics.present
  /\ getComicStatus(readComics, 1) = Row("in_progress", 2, NumPages)
  /\ \E f \in FilesOf(TreeNow) :
       f.id = 1 /\ f.readStatus = "in_progress" /\ f.lastPage = 2 /\ f.totalPages = NumPages

\* the last completed markComicStatus call for id
LastMark(id) ==
  {o \in Ops : /\ pop[o] = "markComicStatus" /\ parg[o].id = id /\ ppc[o] = "done"
               /\ \A q \in Ops : (q > o /\ pop[q] = "markComicStatus" /\ parg[q].id = id)
                                   => ppc[q] = "idle"}
\* the put of markComicStatus writes the arguments as the row of id, whether
\* or not there was one, and touches no other row
MarkUpserts ==
  \A o \in Ops :
    (ppc[o] = "idle" /\ ppc'[o] = "mcsPut") =>
      /\ readComics'[parg'[o].id] =
           Row(parg'[o].status, parg'[o].lastPage, parg'[o].totalPages)
      /\ \A j \in FileIds \ {parg'[o].id} : readComics'[j] = readComics[j]
\* a call completes: the file node of the persisted tree carries the
\* arguments; a call that repeats the call before it has changed nothing
MarkCompletes ==
  \A o \in Ops :
    (pop[o] = "markComicStatus" /\ ppc[o] # "done" /\ ppc'[o] = "done") =>
      /\ comics'.present
           => NodeIs(comics'.content, parg[o].id,
                     Row(parg[o].status, parg[o].lastPage, parg[o].totalPages))
      /\ (o > 1 /\ pop[o - 1] = "markComicStatus" /\ parg[o - 1] = parg[o])
           => (readComics' = ppre[o].readComics /\ comics' = ppre[o].comics)
\* after any sequence of completed calls the row carries status and lastPage
\* of the last markComicStatus call for its id
LastWriterWins ==
  Quiet => \A id \in PgIds : \A o \in LastMark(id) :
             /\ readComics[id].status = parg[o].status
             /\ readComics[id].lastPage = parg[o].lastPage

\* C14: markComicStatus is an idempotent last-writer-wins upsert: it writes
\* its arguments whether or not a row exists, repeating a call changes neither
\* the progress table nor the persisted tree, after any sequence of completed
\* calls the row carries the arguments of the last call, and no row of another
\* id is touched.
C14_MarkIdempotent == [](LastWriterWins) /\ [][MarkUpserts /\ MarkCompletes]_vars
\* a call has created a row that did not exist, a second call with other
\* arguments has replaced it and a third call has repeated the second
C14_Witness ==
  /\ \A o \in 1..3 : pop[o] = "markComicStatus" /\ ppc[o] = "done" /\ parg[o].id = 2
  /\ ppre[1].readComics[2] = NoStatus
  /\ parg[1] # parg[2] /\ parg[2] = parg[3]
  /\ comics.present
  /\ readComics[2] = Row(parg[3].status, parg[3].lastPage, parg[3].totalPages)

\* C15: every row of the progress table with totalPages > 0 has lastPage <=
\* totalPages, and so has every file node of the persisted tree and of every
\* tree getComicsData has returned.
PageInRange(r) == r.totalPages > 0 => r.lastPage <= r.totalPages
C15_PagePosition ==
  /\ \A id \in FileIds : readComics[id] # NoStatus => PageInRange(readComics[id])
  /\ \A f \in FilesOf(comics.content) : PageInRange(f)
  /\ \A t \in Tasks : \A f \in FilesOf(tres[t].content) : PageInRange(f)
\* the reader has reported the last page of comic 2 and both calls have
\* finished: the row and the node of the persisted tree are at page
\* NumPages of NumPages
C15_Witness ==
  /\ readComics[2] = Row("completed", NumPages, NumPages)
  /\ \E f \in FilesOf(comics.content) :
       f.id = 2 /\ f.lastPage = NumPages /\ f.totalPages = NumPages
  /\ \E o \in Ops : pop[o] = "setTotalPages" /\ ppc[o] = "done" /\ parg[o].id = 2

\* the files of all batches, in order
RECURSIVE Concat(_)
Concat(batches) ==
  IF batches = <<>> THEN <<>> ELSE Head(batches).files \o Concat(Tail(batches))
\* the number of files in the batches before batch k
RECURSIVE FilesBefore(_, _)
FilesBefore(batches, k) ==
  IF k = 1 THEN 0 ELSE FilesBefore(batches, k - 1) + Len(batches[k - 1].files)

\* C16: batchFiles never returns a last batch of 1 or 2 files behind an
\* earlier batch; with batch size 40 the lists of 42, 41 and 38 files give
\* the single batches 0-41, 0-40 and 0-37; a remainder of 3 or more files
\* forms a batch of its own.
C16_RemainderFolding ==
  bfDone =>
    LET n == Len(bfFiles)
        k == Len(bfOut)
    IN /\ k >= 2 => Len(bfOut[k].files) >= 3
       /\ (bfSize = 40 /\ n \in {38, 41, 42})
            => bfOut = << [range |-> FormatRange(0, n - 1), files |-> bfFiles] >>
       /\ (n > bfSize /\ n % bfSize >= 3)
            => (k = (n \div bfSize) + 1 /\ Len(bfOut[k].files) = n % bfSize)
\* 42 files at batch size 40 have given the single batch 0-41
C16_Witness ==
  /\ bfDone /\ bfSize = 40 /\ Len(bfFiles) = 42
  /\ Len(bfOut) = 1 /\ bfOut[1].range = <<"0", "-", "4", "1">>
  /\ Len(bfOut[1].files) = 42

\* C17: batching is lossless: the batches concatenated equal the input, the
\* range of each batch names exactly the input indexes of its files, ranges
\* run contiguously from 0 to n-1, no batch holds more than batchSize + 2
\* files (and none is empty), and an empty list gives no batch.
C17_Lossless ==
  bfDone =>
    /\ Concat(bfOut) = bfFiles
    /\ \A k \in 1..Len(bfOut) :
         LET start == FilesBefore(bfOut, k)
             len == Len(bfOut[k].files)
         IN /\ len >= 1 /\ len <= bfSize + 2
            /\ bfOut[k].range = FormatRange(start, start + len - 1)
            /\ bfOut[k].files = [j \in 1..len |-> bfFiles[start + j]]
    /\ bfFiles = <<>> => bfOut = <<>>
\* a list has been cut into three batches or more, the last one starting at
\* an index of two digits and holding batchSize + 2 files after a fold
C17_Witness ==
  /\ bfDone /\ Len(bfOut) >= 3
  /\ Len(bfOut[Len(bfOut)].files) = bfSize + 2
  /\ parseInt(SplitFirst(bfOut[Len(bfOut)].range)) >= 10

\* what listFiles builds from a listing
BatchesOf(f, tag) ==
  batchFiles(SortByName(extractFileLinks(HtmlOf(tag), lfFolders[f].url)), DefaultBatchSize)
YieldsFile(tag) == tag \in Htmls /\ \E k \in 1..Len(HtmlOf(tag)) : AllowedExt(HtmlOf(tag)[k].ext)

\* C18: once the main listing has arrived listFiles does not reject, whatever
\* folder fetch fails; when it resolves every folder has been tried, the
\* result holds exactly the folders whose fetch succeeded and yielded at
\* least one allowed file, each with the batches of its sorted files.
C18_PartialScrape ==
  /\ lfpc = "rejected" => lfFolders = NotListed
  /\ lfpc = "done" =>
       /\ \A f \in 1..Len(lfFolders) : lfSeen[f] # "none"
       /\ DOMAIN lfResult = {lfFolders[f].name : f \in {g \in 1..Len(lfFolders) : YieldsFile(lfSeen[g])}}
       /\ \A f \in 1..Len(lfFolders) :
            YieldsFile(lfSeen[f]) => lfResult[lfFolders[f].name] = BatchesOf(f, lfSeen[f])
\* of three folders the fetch of the second failed, and the call resolved
\* with the first and the third
C18_Witness ==
  /\ lfpc = "done" /\ Len(lfFolders) = 3
  /\ lfSeen[2] = "failed" /\ YieldsFile(lfSeen[1]) /\ YieldsFile(lfSeen[3])
  /\ DOMAIN lfResult = {1, 3}

\* the urls of the positions with the given outcome, in list order
RECURSIVE UrlsWith(_, _)
UrlsWith(outcome, n) ==
  IF n = 0 THEN <<>>
  ELSE UrlsWith(outcome, n - 1) \o (IF sqHist[n] = outcome THEN <<sqUrls[n]>> ELSE <<>>)

\* C19: a batch download called with the storage open keeps at most one
\* transfer in flight, hands the urls to downloadFileFromUrl in list order,
\* goes on to the next url whatever the outcome of the one before, and ends
\* resolved with every url tried and each url counted once, in
\* successfulFiles or in failedUrls.
C19_SequentialDownload ==
  /\ Cardinality(fsXfers) <= 1
  /\ sqpc \in {"idle", "running", "done"}
  /\ sqDbAtCall =>
       /\ sqTried = [k \in 1..Len(sqTried) |-> k]
       /\ sqpc = "running" => (Len(sqTried) = sqI /\ Len(sqHist) = sqI - 1 /\ sqI <= Len(sqUrls))
       /\ Len(sqOk) + Len(sqFailed) = Len(sqHist)
       /\ sqpc = "done" =>
            /\ Len(sqTried) = Len(sqUrls)
            /\ Len(sqHist) = Len(sqUrls)
            /\ Len(sqOk) + Len(sqFailed) = Len(sqUrls)
            /\ [k \in 1..Len(sqFailed) |-> sqFailed[k].url] = UrlsWith("failed", Len(sqUrls))
            /\ Len(sqOk) = Len(UrlsWith("ok", Len(sqUrls)))
\* of two urls the first failed and the second was stored, and the call
\* resolved with one entry in each list
C19_Witness ==
  /\ sqpc = "done" /\ sqDbAtCall /\ Len(sqUrls) = 2
  /\ sqHist = <<"failed", "ok">>
  /\ Len(sqOk) = 1 /\ Len(sqFailed) = 1 /\ sqFailed[1].url = sqUrls[1]

\* the steps that end a call made while db was not set
EndsUninitialized == Len(fsLog') = Len(fsLog) + 1 /\ ~fsLog'[Len(fsLog')].dbAtCall
DownloadOps == {"downloadFileFromUrl", "downloadFilesSequentially"}
FailsFast(e) ==
  /\ e.message = NotInitialized
  /\ e.kind = "rejected" \/ (e.kind = "result" /\ e.op \in DownloadOps)

\* C20: every call of a public FileStorage operation made before init has
\* completed ends with 'Database not initialized' (a rejection, or a failed
\* result for the download operations), with the stores untouched and no
\* network request sent.
C20_FailFast ==
  [][EndsUninitialized =>
       /\ FailsFast(fsLog'[Len(fsLog')])
       /\ UNCHANGED <<stores, lgFiles, lgLast, fsXfers>>]_vars

\* the same for the operations of the current revision alone (part_000)
LegacyOps == {"legacy getAllFiles", "legacy getFile", "legacy deleteFile", "legacy storeFile"}
CurrentRevisionFailsFast ==
  [][(EndsUninitialized /\ fsLog'[Len(fsLog')].op \notin LegacyOps) =>
       /\ FailsFast(fsLog'[Len(fsLog')])
       /\ UNCHANGED <<stores, lgFiles, lgLast, fsXfers>>]_vars

\* the steps that end a lookup by id made with the storage open
LookupOps == {"getFile", "getFolder"}
EndsLookup ==
  /\ Len(fsLog') = Len(fsLog) + 1
  /\ fsLog'[Len(fsLog')].op \in LookupOps
  /\ fsLog'[Len(fsLog')].dbAtCall

\* C21: a lookup of an id, present or absent, ends with a value: with the
\* storage open getFile and getFolder resolve (with an empty result for an
\* absent id) and never reject.
C21_NotFoundIsValue ==
  [][EndsLookup => fsLog'[Len(fsLog')].kind = "resolved"]_vars

\* the buffered request of the catch block has failed in this step
BufferedFails == dfpc = "xhr" /\ dfpc' \notin {"xhr", "store"}

\* C22: streaming first, then one buffered request, then sequential ranged
\* requests: when the buffered request fails the download goes on with a
\* ranged request for the url, and failure is reported only after that
\* third strategy has failed too.
C22_FallbackOrder ==
  [][BufferedFails => [url |-> dfUrl, method |-> "RANGE"] \in fsXfers']_vars

\* C23: the object URLs made for a comic are revoked when its view is torn
\* down (unmount, or change of the id): every live object URL belongs to the
\* comic that a mounted component shows, so the live URLs do not add up over
\* the comics opened.
C23_UrlsRevoked == \A u \in rdLive : rdMounted /\ u.open = rdOpen

\* the name ends in '.' and an allowed extension, without regard to case
HasImageExtension(name) ==
  \E ext \in imageExtensions : endsWith(toLowerCase(name), Dot \o ext)
Hidden(name) == startsWith(name, MacOsx) \/ startsWith(name, Dot)
NamesOf(pages) == {pages[i].name : i \in 1..Len(pages)}
Ascending(kind, pages) ==
  \A i \in 1..(Len(pages) - 1) : compareNames(kind, pages[i].name, pages[i + 1].name) < 0

\* C24 as stated: the pages of a finished extraction are exactly the entries
\* that are no directory and have an allowed image extension, one page each,
\* in ascending order of name.
C24_PageOrder_AsStated ==
  \A k \in Opens :
    rdTask[k].pc = "done" =>
      LET t == rdTask[k]
      IN /\ NamesOf(t.files) =
              {e.name : e \in {x \in Range(t.archive) : ~x.dir /\ HasImageExtension(x.name)}}
         /\ Len(t.files) = Cardinality(NamesOf(t.files))
         /\ Ascending(rdKind, t.files)

\* the entries a reader makes pages of: part_005 leaves out hidden entries and
\* entries whose decode fails; page.tsx takes a name without '.' as its own
\* extension
Taken(kind, t) ==
  {e.name : e \in {x \in Range(t.archive) :
      /\ ~x.dir
      /\ HasImageExtension(x.name) \/ (kind = "page" /\ toLowerCase(x.name) \in imageExtensions)
      /\ ~(kind = "dexie" /\ Hidden(x.name))
      /\ x.name \notin t.failed}}

\* C24 (amended): the pages of a finished extraction are exactly the entries
\* the reader takes, one page each, in ascending order of name under the
\* reader's comparison, whatever the order of the archive and the order in
\* which the decodes complete.
C24_PageOrder ==
  \A k \in Opens :
    rdTask[k].pc = "done" =>
      LET t == rdTask[k]
      IN /\ NamesOf(t.files) = Taken(rdKind, t)
         /\ Len(t.files) = Cardinality(NamesOf(t.files))
         /\ Ascending(rdKind, t.files)
         /\ (t.alive /\ t.files # <<>>) => rdImages = t.files

\* an archive whose entries are not in the order of their names has been
\* made into two pages or more by page.tsx
C24_Witness ==
  /\ rdKind = "page"
  /\ rdTask[1].pc = "done"
  /\ Len(rdTask[1].files) >= 2
  /\ \E i, j \in 1..Len(rdTask[1].archive) :
       /\ i < j
       /\ {rdTask[1].archive[i].name, rdTask[1].archive[j].name} \subseteq NamesOf(rdTask[1].files)
       /\ compareNames(rdKind, rdTask[1].archive[i].name, rdTask[1].archive[j].name) > 0

\* the extraction of comic k ends in this step without a page: the archive
\* cannot be decoded, an entry cannot be decoded, or no entry is an image
FailsNow(k) ==
  /\ rdTask[k].pc \in {"load", "decode"}
  /\ \/ rdTask'[k].pc \in {"failed", "rejected"}
     \/ rdTask'[k].pc = "done" /\ rdTask'[k].files = <<>>

StartsDownload(id) ==
  \E c \in Calls : cid[c] = id /\ pc[c] = "get" /\ pc'[c] = "fetch"

\* C26: once deleteDownloadedComic(id) has removed the record of id, no
\* record of id exists until a download call for id is started, also when a
\* transfer for id was in flight at the delete: a record of an id that has
\* none comes into being only as the first write of a download call.
C26_DeleteIsFinal ==
  [][\A id \in Ids :
       (comicDownloads[id] = Absent /\ comicDownloads'[id] # Absent) => StartsDownload(id)]_vars

SetInProgress(t) == \E s \in SetCalls : lpCall[s].pc = "clear" /\ lpCall[s].table = t

\* C27: under every interleaving of set calls each table holds at most one
\* row, and when no set call is under way the get returns the id of the set
\* call that completed last (undefined if there was none).
C27_LastSingleton ==
  /\ Cardinality(lastRows["lastReadComic"]) <= 1
  /\ Cardinality(lastRows["lastFolder"]) <= 1
  /\ ~SetInProgress("lastReadComic") => getLastReadComic = lpLast["lastReadComic"]
  /\ ~SetInProgress("lastFolder") => getLastFolder = lpLast["lastFolder"]

\* the three shapes of a manifest: a bare array, a root folder object with an
\* array of children, an object with an array content
BareArray(raw) == raw.json = "array"
RootFolder(raw) ==
  raw.json = "object" /\ raw.type = "folder" /\ raw.hasChildren /\ raw.children # NotArray
ContentObject(raw) == raw.json = "object" /\ raw.hasContent /\ raw.content # NotArray
NodesOf(raw) ==
  IF BareArray(raw) THEN raw.items
  ELSE IF RootFolder(raw) THEN raw.children
  ELSE raw.content

\* C28: a bare array, a root folder object and an object with a content
\* array are accepted, and their items, children or content taken as the
\* top-level nodes; with any other value (null, number, string, an object
\* with none of these, unparsable text) the task writes nothing to the
\* snapshot.
C28_ManifestShapes ==
  [][\A t \in Tasks :
       /\ (tpc[t] = "json" /\ tpc'[t] # "json") =>
            IF BareArray(traw'[t]) \/ RootFolder(traw'[t]) \/ ContentObject(traw'[t])
            THEN tpc'[t] = "getRead" /\ tdata'[t] = NodesOf(traw'[t])
            ELSE comics' = comics
       /\ (tpc[t] = "getRead" /\ tpc'[t] # "getRead") =>
            IF BareArray(traw[t]) \/ RootFolder(traw[t]) \/ ContentObject(traw[t])
            THEN tpc'[t] = "clear"
            ELSE tpc'[t] = "gcGet" /\ comics' = comics]_vars

\* a sync that was given a number has ended with the stored snapshot, and a
\* sync that was given a root folder object has stored its children
C28_Witness ==
  \E t, u \in Tasks :
    /\ traw[t] = RawOther("number") /\ tpc[t] = "done"
    /\ RootFolder(traw[u]) /\ tpc[u] = "done" /\ top[u] = "updateFromRemoteDB"
    /\ comics = Root(sortFolderContents(updateStatusInData(TreeB, tmap[u])))

\* items of the same type are in the natural order of their names
NaturalOrder(q) ==
  \A i, j \in 1..Len(q) :
    (i < j /\ q[i].type = q[j].type) => localeCompareNumeric(q[i].name, q[j].name) <= 0
FoldersFirst(q) ==
  \A i, j \in 1..Len(q) : (q[i].type = "folder" /\ q[j].type = "file") => i < j

\* C29: every ascending sort by name (sortItems with key name and direction
\* asc, sortFolderContents, the sort of listFiles) orders digit runs by
\* their value, so that page1, page2, page10 come in this order; sortItems
\* puts all folders before all files for every key and direction.
C29_NaturalOrder ==
  /\ (soOp.op \in {"sortFolderContents", "listFiles"}
        \/ (soOp.op = "sortItems" /\ soOp.sortKey = "name" /\ soOp.sortDirection = "asc"))
       => NaturalOrder(soOut)
  /\ soOp.op = "sortItems" => FoldersFirst(soOut)

\* the ids of the folders of a tree
RECURSIVE FolderIdsOf(_)
FolderIdsOf(itemArray) ==
  UNION {IF itemArray[i].type = "folder"
         THEN {itemArray[i].id} \cup FolderIdsOf(itemArray[i].children)
         ELSE {} : i \in 1..Len(itemArray)}
\* a list from a top-level node down to a folder with the id, each element
\* a child of the one before
IsPathTo(path, itemArray, id) ==
  /\ path # <<>>
  /\ path[1] \in Range(itemArray)
  /\ \A i \in 1..Len(path) : path[i].type = "folder"
  /\ \A i \in 1..(Len(path) - 1) : path[i + 1] \in Range(path[i].children)
  /\ path[Len(path)].id = id
TopLevel(data) == IF data.isArray THEN data.items ELSE <<data.root>>
RootOf(data) == IF data.isArray THEN TreeFolder(0, data.items) ELSE data.root

\* C30: for every tree and id buildPathToFolder gives null when no folder has
\* the id and otherwise a path from a top-level node to a folder with the id;
\* findFolderById gives null for a missing id, and the file manager then
\* shows the root folder.
C30_PathLookup ==
  LET nodes == TopLevel(pmData)
      path == buildPathToFolder(nodes, pmLast, <<>>)
      found == findFolderById(nodes, pmLast)
  IN IF pmLast \notin FolderIdsOf(nodes)
     THEN /\ path = NoPath
          /\ found = NoFolder
          /\ pmDone => (pmCurrent = RootOf(pmData) /\ pmPath = <<RootOf(pmData)>>)
     ELSE /\ IsPathTo(path, nodes, pmLast)
          /\ found = path[Len(path)]
          /\ pmDone => /\ pmCurrent.id = pmLast \/ pmCurrent = RootOf(pmData)
                       /\ IsPathTo(pmPath, <<RootOf(pmData)>>, pmCurrent.id)

\* the file manager has opened a folder two levels down, and the id occurs
\* at a file as well
C30_Witness ==
  /\ pmDone
  /\ pmData.isArray
  /\ pmCurrent.id = pmLast
  /\ Len(pmPath) = 3
  /\ \E i \in 1..Len(pmData.items) : pmData.items[i] = TreeFile(pmLast)

\* call c is inside downloadComic after line 260: it has put its record
Downloading(c) == pc[c] \in {"fetch", "backoff", "blob", "putCompleted", "enforce"}
\* downloadComic of call c has resolved or rejected
Settled(c) == pc[c] \in {"resolved", "rejected", "shown", "error"}

C32_RestartAfterFailure ==
  [][\A c \in Calls :
       /\ (pc[c] = "get" /\ meta[c].status = "failed" /\ pc'[c] # "get")
            => /\ pc'[c] = "fetch" /\ attempts'[c] = 1
               /\ comicDownloads'[cid[c]] =
                    [id |-> cid[c], url |-> UrlOf(cid[c]), status |-> "in_progress",
                     progress |-> 0, downloadedAt |-> 0, error |-> "",
                     data |-> NoBlob, fileSize |-> -1]
       /\ (pc[c] = "blob" /\ pc'[c] = "putCompleted")
            => /\ comicDownloads'[cid[c]].status = "completed"
               /\ comicDownloads'[cid[c]].error = ""
               /\ comicDownloads'[cid[c]].data = BlobOf(UrlOf(cid[c]))]_vars
\* the page opened a comic whose record a preload had left failed, and the
\* new attempt has stored a completed record without an error message
C32_Witness ==
  \E c \in Calls :
    /\ pc[c] = "putCompleted"
    /\ lcMeta[c].status = "failed" /\ lcMeta[c].error # ""
    /\ comicDownloads[cid[c]].status = "completed"
    /\ comicDownloads[cid[c]].error = ""

\* C33: the promise preloadComic returned is resolved from the moment the
\* download is started, whatever the download does later, it never rejects,
\* and no rejection of the download is left unhandled.
C33_PreloadNeverFails ==
  \A c \in Calls :
    ~Foreground(c) =>
      /\ plPromise[c] # "rejected"
      /\ pc[c] # "idle" => plPromise[c] = "resolved"
      /\ c \notin plUnhandled
\* a preload has timed out and its handler has logged the error
C33_Witness ==
  \E c \in Calls :
    /\ ~Foreground(c) /\ pc[c] = "logged"
    /\ meta[c].error = "Download timed out"
    /\ plPromise[c] = "resolved"

\* C34: whenever a downloadComic(id) that made a transfer resolves, the
\* record of id is present and completed with its blob, so that the
\* getDownloadedComic(id) that follows returns the blob; and the enforcement
\* a download triggers never deletes the record the download stored.
C34_SurvivesEviction ==
  [][\A c \in Calls :
       /\ (pc[c] \in {"putCompleted", "enforce"} /\ pc'[c] = "resolved")
            => getDownloadedComic(comicDownloads'[cid[c]]) = BlobOf(UrlOf(cid[c]))
       /\ (pc[c] = "resolved" /\ pc'[c] \in {"shown", "error"})
            => pc'[c] = "shown"
       /\ (pc[c] = "enforce" /\ toDelete'[c] # toDelete[c])
            => Head(toDelete[c]) # cid[c]]_vars

\* no snapshot or progress call is under way
AllFinished ==
  /\ \A t \in Tasks : tpc[t] \in {"idle", "done", "rejected"}
  /\ \A o \in Ops : ppc[o] \in {"idle", "done"}
\* task t has synced the listing the remote sent
Synced(t) ==
  top[t] = "updateFromRemoteDB" /\ tpc[t] = "done" /\ ExtractData(traw[t]).ok

\* C35: once a sync and the progress calls that ran beside it have all
\* finished, the snapshot persisted is the listing the sync fetched with the
\* progress rows as they are now; no markComicStatus or setTotalPages has put
\* back the tree it read before the sync.
C35_NoStaleWriteBack ==
  \A t \in Tasks :
    (AllFinished /\ Synced(t))
      => comics = Root(sortFolderContents(
                         updateStatusInData(ExtractData(traw[t]).data, readComics)))

\* the calls o and o + 1 are the markComicStatus and the setTotalPages of one
\* report of the reader, made while no other progress call was under way;
\* both have finished, and no progress call for the same file has been
\* started since
ReportDone(o) ==
  /\ o + 1 \in Ops
  /\ ppre[o] # NoPre
  /\ pop[o] = "markComicStatus" /\ pop[o + 1] = "setTotalPages"
  /\ ppc[o] = "done" /\ ppc[o + 1] = "done"
  /\ \A q \in Ops : q > o + 1 => (ppc[q] = "idle" \/ parg[q].id # parg[o].id)

\* C36: when the reader has reported page p of a comic of n images and the
\* markComicStatus and the setTotalPages it started have both finished, in
\* whatever order their storage steps ran, the progress row of the comic is
\* {status, lastPage: p, totalPages: n}.
C36_ReportRaceFree ==
  \A o \in Ops :
    ReportDone(o)
      => readComics[parg[o].id] =
           Row(parg[o].status, parg[o].lastPage, parg[o + 1].totalPages)
\* a report has replaced the row of comic 1 by another page, with the number
\* of images, and the tree update of setTotalPages ran before that of
\* markComicStatus
C36_Witness ==
  \E o \in Ops :
    /\ ReportDone(o)
    /\ parg[o].id = 1 /\ parg[o + 1].totalPages = ImagesOf(1)
    /\ ppre[o].readComics[1] # NoStatus
    /\ ppre[o].readComics[1].lastPage # parg[o].lastPage
    /\ readComics[1] = Row(parg[o].status, parg[o].lastPage, ImagesOf(1))
    /\ \E f \in FilesOf(comics.content) : f.id = 1 /\ f.totalPages = 0
\* C37: the ids getNextId hands out for one counter are pairwise distinct, each
\* is greater than every id of that counter handed out before, and the stored
\* counter equals the largest id handed out.
HandedOf(idType) == {i \in 1..Len(idHanded) : idHanded[i].idType = idType}
RECURSIVE Climb(_, _)
Climb(k, n) ==
  {k} \cup (IF n = 0 \/ k \notin DOMAIN fsFolders \/ fsFolders[k].parentId = <<>>
            THEN {}
            ELSE Climb(fsFolders[k].parentId, n - 1))
ReachesRoot(k) == RootId \in Climb(k, Cardinality(DOMAIN fsFolders))
\* folder id and the folders below it
SubtreeOf(id) == {id} \cup {k \in DOMAIN fsFolders : id \in Climb(k, Cardinality(DOMAIN fsFolders))}
LastCall == fsLog[Len(fsLog)]

====
